---- MODULE Spec2Model ----
EXTENDS Integers, Sequences, FiniteSets, TLC

(***************************************************************************)
(* Commerce ingestion core: webhook endpoints (Shopify, Square, AnyRoad),  *)
(* backfill scripts and admin resync writing one warehouse                 *)
(* (FactOrder, FactOrderLine, FactEvent, BridgeCustomerIdentity,           *)
(* IngestAudit).                                                           *)
(*                                                                         *)
(* Conventions of the model                                                *)
(*  - money is counted in minor units (integers); a decimal string of the  *)
(*    Shopify payload and a cents amount of Square denote that number;     *)
(*  - a string built by concatenation (an external id, a gid, a signing    *)
(*    string) is the tuple of its parts;                                   *)
(*  - new Date() is the token "now"; a timestamp of a source is "source";  *)
(*  - an HMAC is the symbolic term <<"hmac", encoding, key, message>>.     *)
(***************************************************************************)

VARIABLES
    factOrder,               \* set of FactOrder rows
    factOrderLine,           \* set of FactOrderLine rows
    factEvent,               \* set of FactEvent rows
    bridgeCustomerIdentity,  \* set of BridgeCustomerIdentity rows
    ingestAudit,             \* sequence of IngestAudit rows (index = row id)
    req,                     \* the webhook request being served, or NoReq
    lastOp,                  \* the last finished operation (history)
    prevOp,                  \* the finished operation before lastOp (history)
    ops,                     \* number of requests and runs still to come
    bf,                      \* state of the running backfill script
    tasks,                   \* ingestions running concurrently, statement by statement
    call                     \* the library or script call being made, or NoCall

vars == <<factOrder, factOrderLine, factEvent, bridgeCustomerIdentity,
          ingestAudit, req, lastOp, prevOp, ops, bf, tasks, call>>

\* what the request handlers and the backfill runs leave alone
aside == <<tasks, call>>

warehouse == <<factOrder, factOrderLine, factEvent, bridgeCustomerIdentity>>

\* null, by type: of a string, of an object, of a composed string, of a number
NULL == "null"
NoRec == [absent |-> TRUE]
NoId == <<>>
NoAmount == 0 - 1

----------------------------------------------------------------------------
(* Bounds *)

MaxOrderId == 2
MaxAmount == 2
MaxOps == 3
MaxOpsAll == 2
MaxRuns == 2
MaxSourceId == 4
MaxTasks == 2
MaxPayments == 2
MaxThrottled == 5
PageLimit == 1

NativeIds == 1..MaxOrderId
Amounts == 0..MaxAmount

----------------------------------------------------------------------------
(* Generic helpers *)

RECURSIVE SumSeq(_)
SumSeq(s) == IF s = <<>> THEN 0 ELSE Head(s) + SumSeq(Tail(s))

SeqToSet(s) == {s[i] : i \in 1..Len(s)}

\* String.prototype.toLowerCase on the type names that occur in gids
ToLowerCase(w) ==
    CASE w = "Order" -> "order"
      [] w = "LineItem" -> "lineitem"
      [] w = "Customer" -> "customer"
      [] w = "Product" -> "product"
      [] OTHER -> w

\* parseFloat(x || '0') of an amount that may be absent
AmountOrZero(x) == IF x = NoAmount THEN 0 ELSE x

----------------------------------------------------------------------------
(* Warehouse tables: Prisma operations on sets of rows *)

Rows(table, id) == {r \in table : r.id = id}

FindUnique(table, id) ==
    IF Rows(table, id) = {} THEN NoRec ELSE CHOOSE r \in table : r.id = id

\* a variant of upsert that inserts without looking for the row
UpsertRow_Inserts(table, id, created, updated) == table \cup {created}

\* prisma upsert: the row with this id is replaced by `updated`, or `created`
\* is inserted when there is none
UpsertRow(table, id, created, updated) ==
    IF Rows(table, id) = {} THEN table \cup {created}
    ELSE (table \ Rows(table, id)) \cup {updated}

\* prisma update of an existing row
UpdateRow(table, id, updated) == (table \ Rows(table, id)) \cup {updated}

\* the warehouse as a value handed between the steps of one handler
WH(fo, fol, fe, bci) ==
    [factOrder |-> fo, factOrderLine |-> fol, factEvent |-> fe,
     bridgeCustomerIdentity |-> bci]

CurrentWH == WH(factOrder, factOrderLine, factEvent, bridgeCustomerIdentity)

\* outcome of a handler: the warehouse it leaves and whether it returned
\* (ok) or threw
Outcome(w, ok) == [wh |-> w, ok |-> ok]

\* database faults a handler call may meet
Faults == {"none", "order", "lines"}

----------------------------------------------------------------------------
(* PII hashing: lib/shopify.ts *)

PiiStrings == {"A@B.com", " a@b.com ", "a@b.com", "", " "}

\* value.toLowerCase().trim()
LowerTrim(v) ==
    CASE v \in {"A@B.com", " a@b.com ", "a@b.com"} -> "a@b.com"
      [] v \in {"", " "} -> ""
      [] OTHER -> v

\* a variant of hashPii that returns the normalized value undigested
hashPii_Plain(value) ==
    IF value = NULL \/ value = "" THEN NoId
    ELSE <<"plain", LowerTrim(value)>>

hashPii(value) ==
    IF value = NULL \/ value = "" THEN NoId
    ELSE <<"sha256", LowerTrim(value)>>

\* hashPii of the security helpers: HMAC-SHA256 under PII_HASH_SECRET
securityHashPii(value) ==
    IF value = NULL \/ value = "" THEN NoId
    ELSE <<"hmac-sha256", LowerTrim(value)>>

generateCustomerHash(email, phone) ==
    IF email # NULL /\ email # "" THEN hashPii(email)
    ELSE IF phone # NULL /\ phone # "" THEN hashPii(phone)
    ELSE NoId

----------------------------------------------------------------------------
(* Shopify: ids and normalization, lib/shopify.ts *)

\* "gid://shopify/<Type>/<id>" as gid.split('/')
Gid(type, id) == <<"gid:", "", "shopify", type, id>>

\* a variant of extractShopifyId that keeps the case of the gid's type
extractShopifyId_KeepsCase(gid) ==
    LET type == IF Len(gid) >= 4 THEN gid[4] ELSE "unknown"
        id == IF Len(gid) >= 5 THEN gid[5] ELSE gid
    IN <<"shopify", type, id>>

\* `shopify_${type}_${id}`
extractShopifyId(gid) ==
    LET type == IF Len(gid) >= 4 THEN ToLowerCase(gid[4]) ELSE "unknown"
        id == IF Len(gid) >= 5 THEN gid[5] ELSE gid
    IN <<"shopify", type, id>>

normalizeLineItem(item) ==
    [externalId |-> extractShopifyId(item.id),
     sku |-> item.sku,
     productTitle |-> item.name,
     category |-> IF item.product = NoRec THEN NULL ELSE item.product.productType,
     qty |-> item.quantity,
     lineTotal |-> item.originalTotal]

normalizeOrder(order) ==
    LET grossTotal == order.totalPrice
        refundsTotal == order.totalRefunded
        netTotal == grossTotal - refundsTotal
        customerHash ==
            IF order.customer # NoRec
            THEN generateCustomerHash(order.customer.email, order.customer.phone)
            ELSE NoId
    IN [externalId |-> extractShopifyId(order.id),
        channelId |-> "shopify",
        locationId |-> "online-shopify",
        createdAt |-> order.createdAt,
        updatedAt |-> order.updatedAt,
        customerHash |-> customerHash,
        grossTotal |-> grossTotal,
        netTotal |-> netTotal,
        taxTotal |-> order.totalTax,
        discountTotal |-> order.totalDiscounts,
        refundsTotal |-> refundsTotal,
        tendersJson |-> <<>>,
        rawJson |-> [order |-> order, lastRefund |-> NoRec],
        lineItems |-> [i \in 1..Len(order.lineItems) |->
                          normalizeLineItem(order.lineItems[i])],
        customerIdentity |->
            IF order.customer # NoRec
            THEN [shopifyCustomerId |-> extractShopifyId(order.customer.id)]
            ELSE NoRec]

----------------------------------------------------------------------------
(* Persisting a normalized order *)

\* the FactOrder columns of a normalized order (orderData without the id)
OrderColumns(n) ==
    [channelId |-> n.channelId, locationId |-> n.locationId,
     createdAt |-> n.createdAt, updatedAt |-> n.updatedAt,
     customerHash |-> n.customerHash, grossTotal |-> n.grossTotal,
     netTotal |-> n.netTotal, taxTotal |-> n.taxTotal,
     discountTotal |-> n.discountTotal, refundsTotal |-> n.refundsTotal,
     tendersJson |-> n.tendersJson, rawJson |-> n.rawJson]

\* a variant of the row written by the upserts that stores the gross total
\* as the net total
OrderRow_NetIsGross(id, c) ==
    [id |-> id, channelId |-> c.channelId, locationId |-> c.locationId,
     createdAt |-> c.createdAt, updatedAt |-> c.updatedAt,
     customerHash |-> c.customerHash, grossTotal |-> c.grossTotal,
     netTotal |-> c.grossTotal, taxTotal |-> c.taxTotal,
     discountTotal |-> c.discountTotal, refundsTotal |-> c.refundsTotal,
     tendersJson |-> c.tendersJson, rawJson |-> c.rawJson]

OrderRow(id, c) ==
    [id |-> id, channelId |-> c.channelId, locationId |-> c.locationId,
     createdAt |-> c.createdAt, updatedAt |-> c.updatedAt,
     customerHash |-> c.customerHash, grossTotal |-> c.grossTotal,
     netTotal |-> c.netTotal, taxTotal |-> c.taxTotal,
     discountTotal |-> c.discountTotal, refundsTotal |-> c.refundsTotal,
     tendersJson |-> c.tendersJson, rawJson |-> c.rawJson]

LineRow(orderId, item) ==
    [id |-> item.externalId, orderId |-> orderId, sku |-> item.sku,
     productTitle |-> item.productTitle, category |-> item.category,
     qty |-> item.qty, lineTotal |-> item.lineTotal]

LineRows(orderId, lineItems) ==
    {LineRow(orderId, lineItems[i]) : i \in 1..Len(lineItems)}

\* a variant of deleteMany that deletes nothing
DeleteLines_Nothing(fol, orderId) == fol

\* factOrderLine.deleteMany({ where: { orderId } })
DeleteLines(fol, orderId) == {l \in fol : l.orderId # orderId}

\* factOrderLine.createMany: the primary key id is unique, so the call throws
\* when a row of the batch repeats an id of the table or of the batch
CreateManyThrows(fol, orderId, lineItems) ==
    \/ \E i \in 1..Len(lineItems) : Rows(fol, lineItems[i].externalId) # {}
    \/ \E i, j \in 1..Len(lineItems) :
          i # j /\ lineItems[i].externalId = lineItems[j].externalId

\* upsert the order row, delete its lines, insert the new lines; the rows
\* to create and to update are given by the caller
ReplaceOrder(w, id, created, updated, lineItems, fault) ==
    IF fault = "order" THEN Outcome(w, FALSE)
    ELSE
      LET fo == UpsertRow(w.factOrder, id, created, updated)
          deleted == DeleteLines(w.factOrderLine, id)
          w1 == [w EXCEPT !.factOrder = fo, !.factOrderLine = deleted]
      IN IF Len(lineItems) = 0 THEN Outcome(w1, TRUE)
         ELSE IF fault = "lines" \/ CreateManyThrows(deleted, id, lineItems)
         THEN Outcome(w1, FALSE)
         ELSE Outcome([w1 EXCEPT !.factOrderLine =
                          deleted \cup LineRows(id, lineItems)], TRUE)

\* bridgeCustomerIdentity.upsert setting one channel's native id
BridgeRow(hash) ==
    [id |-> hash, shopifyCustomerId |-> NoId, squareCustomerId |-> NoId,
     anyroadGuestId |-> NoId]

\* a variant of the identity upsert whose update rewrites the whole row
UpsertIdentity_Replaces(bci, hash, field, value) ==
    LET created == [BridgeRow(hash) EXCEPT ![field] = value]
    IN UpsertRow(bci, hash, created, created)

UpsertIdentity(bci, hash, field, value) ==
    LET old == FindUnique(bci, hash)
        created == [BridgeRow(hash) EXCEPT ![field] = value]
        updated == IF old = NoRec THEN created ELSE [old EXCEPT ![field] = value]
    IN UpsertRow(bci, hash, created, updated)

\* bridgeCustomerIdentity.upsert that only touches updatedAt
TouchIdentity(bci, hash) ==
    LET old == FindUnique(bci, hash)
    IN UpsertRow(bci, hash, BridgeRow(hash), IF old = NoRec THEN BridgeRow(hash) ELSE old)

----------------------------------------------------------------------------
(* Webhook signatures *)

\* the configured webhook secret of a source, and a key that is not it
Secret(source) == <<"secret", source>>
OtherKey == <<"secret", "other">>

\* crypto.createHmac('sha256', key).update(message).digest(encoding)
Hmac(encoding, key, message) == <<"hmac", encoding, key, message>>

\* crypto.timingSafeEqual(Buffer.from(a), Buffer.from(b)); a length mismatch
\* throws and is caught as false
timingSafeEqual(a, b) == a = b

\* lib/shopify.ts verifyWebhookHmac
verifyShopifyHmac(body, hmacHeader) ==
    timingSafeEqual(Hmac("base64", Secret("shopify"), body), hmacHeader)

\* a request body: JSON text of a payload, or text that JSON.parse rejects
JsonBody(payload) == [json |-> payload]
MalformedBody == [text |-> "not json"]
Parses(body) == body # MalformedBody

\* how the sender produced the signature header of a request with body b:
\*   valid    - HMAC of the source's signing string over b with the secret
\*   missing  - no header
\*   tampered - header made for the body before it was altered into b
\*   wrongkey - HMAC over b with another key
SigCases == {"valid", "missing", "tampered", "wrongkey"}

\* the body the header was made for, when b was altered in transit
BeforeTamper(b) == [original |-> b]

SignedWith(sigcase, encoding, source, signing, signingOfOriginal) ==
    CASE sigcase = "valid" -> Hmac(encoding, Secret(source), signing)
      [] sigcase = "tampered" -> Hmac(encoding, Secret(source), signingOfOriginal)
      [] sigcase = "wrongkey" -> Hmac(encoding, OtherKey, signing)
      [] OTHER -> NoId

----------------------------------------------------------------------------
(* Shopify webhook payloads (REST shape) *)

ItemA(n) == [id |-> 10 * n + 1, name |-> "Bourbon", sku |-> "SKU-A",
             price |-> 1, quantity |-> 2, product_id |-> 7,
             product_type |-> "Spirits"]
\* the same line item after its price was changed
ItemA2(n) == [ItemA(n) EXCEPT !.price = 1, !.quantity = 1]
ItemB(n) == [id |-> 10 * n + 2, name |-> "Glass", sku |-> NULL,
             price |-> 1, quantity |-> 1, product_id |-> NoAmount,
             product_type |-> NULL]

Versions == 1..3

\* versions of order n at the source: as placed; with one refund recorded;
\* edited (a line removed, a line re-priced, a lower total)
VersionLines(n, v) == IF v = 3 THEN <<ItemA2(n)>> ELSE <<ItemA(n), ItemB(n)>>
VersionPrice(v) == IF v = 3 THEN MaxAmount - 1 ELSE MaxAmount
VersionRefunds(v) == IF v = 2 THEN <<1>> ELSE <<>>

ShopifyCustomer(n) ==
    IF n = 1 THEN [id |-> 1, email |-> "A@B.com", phone |-> NULL] ELSE NoRec

ShopifyOrderPayload(n, v) ==
    [id |-> n, created_at |-> "source", updated_at |-> "source",
     total_price |-> VersionPrice(v), total_discounts |-> NoAmount,
     total_tax |-> NoAmount, refunds |-> VersionRefunds(v),
     customer |-> ShopifyCustomer(n), line_items |-> VersionLines(n, v)]

ShopifyOrderPayloads == {ShopifyOrderPayload(n, v) : n \in NativeIds, v \in Versions}

RefundAmounts == {NoAmount} \cup (1..MaxAmount)

ShopifyRefundPayload(n, amount) == [id |-> 1, order_id |-> n, amount |-> amount]

ShopifyRefundPayloads ==
    {ShopifyRefundPayload(n, a) : n \in NativeIds, a \in RefundAmounts}

ShopifyTopics == {"orders/create", "orders/updated", "refunds/create", "products/update"}

PayloadsOfTopic(topic) ==
    CASE topic \in {"orders/create", "orders/updated"} -> ShopifyOrderPayloads
      [] topic = "refunds/create" -> ShopifyRefundPayloads
      [] OTHER -> {[id |-> 1]}

\* calculateTotalRefunded
calculateTotalRefunded(payload) ==
    IF Len(payload.refunds) = 0 THEN 0 ELSE SumSeq(payload.refunds)

\* transformWebhookToOrder
transformWebhookToOrder(payload) ==
    [id |-> Gid("Order", payload.id),
     createdAt |-> payload.created_at,
     updatedAt |-> payload.updated_at,
     totalPrice |-> AmountOrZero(payload.total_price),
     totalDiscounts |-> AmountOrZero(payload.total_discounts),
     totalTax |-> AmountOrZero(payload.total_tax),
     totalRefunded |-> calculateTotalRefunded(payload),
     customer |->
        IF payload.customer # NoRec
        THEN [id |-> Gid("Customer", payload.customer.id),
              email |-> payload.customer.email,
              phone |-> payload.customer.phone]
        ELSE NoRec,
     lineItems |-> [i \in 1..Len(payload.line_items) |->
        LET item == payload.line_items[i]
        IN [id |-> Gid("LineItem", item.id),
            name |-> item.name,
            sku |-> item.sku,
            quantity |-> item.quantity,
            originalTotal |-> item.price * item.quantity,
            product |-> IF item.product_id # NoAmount
                        THEN [id |-> Gid("Product", item.product_id),
                              productType |-> item.product_type]
                        ELSE NoRec]]]

----------------------------------------------------------------------------
(* Shopify webhook processors: app/api/webhooks/shopify/route.ts *)

ShopifyOrderId(n) == <<"shopify", "order", n>>

\* handleOrderWebhook
shopifyHandleOrderWebhook(w, payload, fault) ==
    LET normalized == normalizeOrder(transformWebhookToOrder(payload))
        id == normalized.externalId
        bci == IF normalized.customerIdentity # NoRec /\ normalized.customerHash # NoId
               THEN UpsertIdentity(w.bridgeCustomerIdentity, normalized.customerHash,
                        "shopifyCustomerId",
                        normalized.customerIdentity.shopifyCustomerId)
               ELSE w.bridgeCustomerIdentity
        w1 == [w EXCEPT !.bridgeCustomerIdentity = bci]
        row == OrderRow(id, [OrderColumns(normalized) EXCEPT !.updatedAt = "now"])
    IN ReplaceOrder(w1, id, row, row, normalized.lineItems, fault)

\* a variant of handleRefundWebhook that records the refund and leaves the
\* net total as it was
shopifyHandleRefundWebhook_StaleNet(w, payload, fault) ==
    LET orderId == ShopifyOrderId(payload.order_id)
        existingOrder == FindUnique(w.factOrder, orderId)
    IN IF existingOrder = NoRec THEN Outcome(w, TRUE)
       ELSE IF fault = "order" THEN Outcome(w, FALSE)
       ELSE
         LET updated == [existingOrder EXCEPT
                            !.refundsTotal = existingOrder.refundsTotal
                                             + AmountOrZero(payload.amount),
                            !.updatedAt = "now"]
         IN Outcome([w EXCEPT !.factOrder = UpdateRow(w.factOrder, orderId, updated)],
                    TRUE)

\* handleRefundWebhook
shopifyHandleRefundWebhook(w, payload, fault) ==
    LET orderId == ShopifyOrderId(payload.order_id)
        refundAmount == AmountOrZero(payload.amount)
        existingOrder == FindUnique(w.factOrder, orderId)
    IN IF existingOrder = NoRec THEN Outcome(w, TRUE)
       ELSE IF fault = "order" THEN Outcome(w, FALSE)
       ELSE
         LET newRefundsTotal == existingOrder.refundsTotal + refundAmount
             newNetTotal == existingOrder.grossTotal - newRefundsTotal
             updated == [existingOrder EXCEPT
                            !.refundsTotal = newRefundsTotal,
                            !.netTotal = newNetTotal,
                            !.updatedAt = "now",
                            !.rawJson = [existingOrder.rawJson EXCEPT
                                            !.lastRefund = payload]]
         IN Outcome([w EXCEPT !.factOrder = UpdateRow(w.factOrder, orderId, updated)],
                    TRUE)

\* the switch on the topic in POST
shopifyDispatch(w, topic, payload, fault) ==
    CASE topic \in {"orders/create", "orders/updated"} ->
            shopifyHandleOrderWebhook(w, payload, fault)
      [] topic = "refunds/create" -> shopifyHandleRefundWebhook(w, payload, fault)
      [] OTHER -> Outcome(w, TRUE)

----------------------------------------------------------------------------
(* Requests, audit rows and the history of finished operations *)

NoReq == [pc |-> "idle"]

NoCall == [fn |-> "none"]

Request(source, topic, payload, sig, auditId) ==
    [pc |-> "handling", source |-> source, topic |-> topic, payload |-> payload,
     sig |-> sig, auditId |-> auditId]

AuditRow(source, type, status, subject, error) ==
    [source |-> source, type |-> type, status |-> status, subject |-> subject,
     error |-> error]

\* a finished operation: how it arrived (via), what it was (kind), the
\* signature case and HTTP status of a webhook, the order or event row id it
\* addressed, the payload on the wire (raw), the normalized record or the
\* payload the processor worked from (input), the row before it ran (pre),
\* whether its handler returned (ok)
Op(via, source, kind, sig, status, id, raw, input, pre, ok) ==
    [via |-> via, source |-> source, kind |-> kind, sig |-> sig,
     status |-> status, id |-> id, raw |-> raw, input |-> input, pre |-> pre,
     ok |-> ok]

NoOp == Op("none", "none", "none", "none", 0, NoId, NoRec, NoRec, NoRec, TRUE)

SetWarehouse(w) ==
    /\ factOrder' = w.factOrder
    /\ factOrderLine' = w.factOrderLine
    /\ factEvent' = w.factEvent
    /\ bridgeCustomerIdentity' = w.bridgeCustomerIdentity

Finish(op) ==
    /\ lastOp' = op
    /\ prevOp' = lastOp

\* a webhook answered before any audit row exists (401 or 500)
RespondEarly(source, sig, status) ==
    /\ Finish(Op("webhook", source, IF status = 401 THEN "rejected" ELSE "unparsed",
                 sig, status, NoId, NoRec, NoRec, NoRec, FALSE))
    /\ ops' = ops - 1
    /\ UNCHANGED <<warehouse, ingestAudit, req, bf, aside>>

\* ingestAudit.create with status 'processing', then the handler is awaited
Accept(source, topic, payload, sig, subject) ==
    /\ ingestAudit' = Append(ingestAudit,
            AuditRow(source, <<"webhook", topic>>, "processing", subject, NULL))
    /\ req' = Request(source, topic, payload, sig, Len(ingestAudit) + 1)
    /\ ops' = ops - 1
    /\ UNCHANGED <<warehouse, lastOp, prevOp, bf, aside>>

\* the handler has returned or thrown: ingestAudit.update to the terminal
\* status and the response
\* a variant of the end of POST that sets the audit row to success whatever
\* the handler did
Complete_AlwaysSuccess(out, kind, id, input, pre) ==
    /\ SetWarehouse(out.wh)
    /\ ingestAudit' = [ingestAudit EXCEPT ![req.auditId].status = "success",
                                          ![req.auditId].error = NULL]
    /\ Finish(Op("webhook", req.source, kind, req.sig,
                 IF out.ok THEN 200 ELSE 500, id, req.payload, input, pre, out.ok))
    /\ req' = NoReq
    /\ UNCHANGED <<ops, bf, aside>>

Complete(out, kind, id, input, pre) ==
    /\ SetWarehouse(out.wh)
    /\ ingestAudit' = [ingestAudit EXCEPT
            ![req.auditId].status = IF out.ok THEN "success" ELSE "failed",
            ![req.auditId].error = IF out.ok THEN NULL ELSE "message"]
    /\ Finish(Op("webhook", req.source, kind, req.sig,
                 IF out.ok THEN 200 ELSE 500, id, req.payload, input, pre, out.ok))
    /\ req' = NoReq
    /\ UNCHANGED <<ops, bf, aside>>

----------------------------------------------------------------------------
(* Shopify webhook endpoint: POST *)

ShopifyBodies(topic) ==
    {JsonBody(p) : p \in PayloadsOfTopic(topic)} \cup {MalformedBody}

ShopifyPOST ==
    /\ req = NoReq
    /\ ops > 0
    /\ \E topic \in ShopifyTopics, sig \in SigCases :
         \E body \in ShopifyBodies(topic) :
            LET hmacHeader == SignedWith(sig, "base64", "shopify", body,
                                         BeforeTamper(body))
            IN IF hmacHeader = NoId THEN RespondEarly("shopify", sig, 401)
               ELSE IF ~verifyShopifyHmac(body, hmacHeader)
               THEN RespondEarly("shopify", sig, 401)
               ELSE IF ~Parses(body) THEN RespondEarly("shopify", sig, 500)
               ELSE Accept("shopify", topic, body.json, sig, body.json.id)

ShopifyKind(topic) ==
    CASE topic \in {"orders/create", "orders/updated"} -> "order"
      [] topic = "refunds/create" -> "refund"
      [] OTHER -> "ignored"

ShopifySubject(topic, payload) ==
    CASE topic \in {"orders/create", "orders/updated"} -> ShopifyOrderId(payload.id)
      [] topic = "refunds/create" -> ShopifyOrderId(payload.order_id)
      [] OTHER -> NoId

ShopifyInput(topic, payload) ==
    IF topic \in {"orders/create", "orders/updated"}
    THEN normalizeOrder(transformWebhookToOrder(payload))
    ELSE payload

ShopifyHandle ==
    /\ req # NoReq
    /\ req.source = "shopify"
    /\ \E fault \in Faults :
         LET id == ShopifySubject(req.topic, req.payload)
         IN Complete(shopifyDispatch(CurrentWH, req.topic, req.payload, fault),
                     ShopifyKind(req.topic), id,
                     ShopifyInput(req.topic, req.payload),
                     FindUnique(factOrder, id))

----------------------------------------------------------------------------
(* Square: lib/square.ts *)

SquareOrderId(n) == <<"square", "order", n>>

\* Square SDK payments of order n as the Payments API lists them
SquarePayment(n, pid, status, refunded, email) ==
    [id |-> pid, orderId |-> n, amountMoney |-> MaxAmount, status |-> status,
     refundedMoney |-> refunded, processingFee |-> <<>>,
     buyerEmailAddress |-> email]

\* Square SDK order n as the Orders API returns it, in two versions: as
\* placed (line uids that no other order uses), and edited (one line left,
\* re-priced, under a uid that is unique within its order only)
SquareLine(uid, total) ==
    [uid |-> uid, name |-> "Pour", quantity |-> 1, catalogObjectId |-> NULL,
     variationName |-> NULL, totalMoney |-> total]

SquareOrder(n, v) ==
    [id |-> n, locationId |-> IF n = 1 THEN "L1" ELSE "L2",
     createdAt |-> "source", updatedAt |-> "source",
     totalMoney |-> IF v = 1 THEN MaxAmount ELSE MaxAmount - 1,
     totalTaxMoney |-> NoAmount, totalDiscountMoney |-> NoAmount,
     lineItems |-> IF v = 1
                   THEN <<SquareLine(10 * n + 1, 1), SquareLine(10 * n + 2, 1)>>
                   ELSE <<SquareLine(1, MaxAmount - 1)>>]

\* what the Square APIs answer for order n at the time of a call: nothing,
\* or a version of the order with the payments made so far
SquareApiAnswers(n) ==
    { [order |-> NoRec, payments |-> <<>>],
      [order |-> SquareOrder(n, 1),
       payments |-> <<SquarePayment(n, "p1", "COMPLETED", NoAmount, "A@B.com")>>],
      [order |-> SquareOrder(n, 2),
       payments |-> <<SquarePayment(n, "p1", "COMPLETED", 1, NULL),
                      SquarePayment(n, "p2", "PENDING", 1, NULL)>>] }

\* reconcilePaymentsToOrders, the entry of one order id
PaymentsOf(payments, orderId) ==
    SelectSeq(payments, LAMBDA p : p.orderId # NoAmount /\ p.orderId = orderId)

\* amount, refunded and fees of one payment, in minor units
PaymentFigure(payment, field) ==
    IF field = "processingFee" THEN SumSeq(payment.processingFee)
    ELSE AmountOrZero(payment[field])

RECURSIVE SumCompleted(_, _)
SumCompleted(payments, field) ==
    IF payments = <<>> THEN 0
    ELSE (IF Head(payments).status = "COMPLETED"
          THEN PaymentFigure(Head(payments), field) ELSE 0)
         + SumCompleted(Tail(payments), field)

\* a variant of reconcilePaymentsToOrders that adds up payments of any status
reconcilePaymentsToOrders_AnyStatus(payments, orderId) ==
    LET mine == PaymentsOf(payments, orderId)
        all(field) == SumCompleted([k \in DOMAIN mine |->
                                       [mine[k] EXCEPT !.status = "COMPLETED"]], field)
    IN IF mine = <<>> THEN NoRec
       ELSE [payments |-> mine, totalPaid |-> all("amountMoney"),
             totalFees |-> all("processingFee"),
             totalRefunded |-> all("refundedMoney")]

reconcilePaymentsToOrders(payments, orderId) ==
    LET mine == PaymentsOf(payments, orderId)
    IN IF mine = <<>> THEN NoRec
       ELSE [payments |-> mine,
             totalPaid |-> SumCompleted(mine, "amountMoney"),
             totalFees |-> SumCompleted(mine, "processingFee"),
             totalRefunded |-> SumCompleted(mine, "refundedMoney")]

\* the first payment with a buyer email, or NoRec
RECURSIVE FirstWithEmail(_)
FirstWithEmail(payments) ==
    IF payments = <<>> THEN NoRec
    ELSE IF Head(payments).buyerEmailAddress \notin {NULL, ""} THEN Head(payments)
    ELSE FirstWithEmail(Tail(payments))

SquareTender(p) ==
    [paymentId |-> p.id, status |-> p.status, amount |-> p.amountMoney,
     processingFees |-> <<>>]

\* normalizeOrder(order, paymentData)
squareNormalizeOrder(order, paymentData) ==
    LET grossTotal == order.totalMoney
        refundsTotal == IF paymentData = NoRec THEN 0 ELSE paymentData.totalRefunded
        netTotal == grossTotal - refundsTotal
        withEmail == IF paymentData = NoRec THEN NoRec
                     ELSE FirstWithEmail(paymentData.payments)
        customerEmail == IF withEmail = NoRec THEN NULL ELSE withEmail.buyerEmailAddress
        customerHash == IF customerEmail = NULL THEN NoId ELSE hashPii(customerEmail)
        payments == IF paymentData = NoRec THEN <<>> ELSE paymentData.payments
    IN [externalId |-> SquareOrderId(order.id),
        channelId |-> "square",
        locationId |-> <<"square", "location", order.locationId>>,
        createdAt |-> order.createdAt,
        updatedAt |-> order.updatedAt,
        customerHash |-> customerHash,
        grossTotal |-> grossTotal,
        netTotal |-> netTotal,
        taxTotal |-> AmountOrZero(order.totalTaxMoney),
        discountTotal |-> AmountOrZero(order.totalDiscountMoney),
        refundsTotal |-> refundsTotal,
        tendersJson |-> [i \in 1..Len(payments) |-> SquareTender(payments[i])],
        rawJson |-> [order |-> order, payments |-> payments,
                     lastPaymentUpdate |-> NoRec],
        lineItems |-> [i \in 1..Len(order.lineItems) |->
            LET item == order.lineItems[i]
            IN [externalId |-> <<"square", "lineitem", item.uid>>,
                sku |-> item.catalogObjectId,
                productTitle |-> item.name,
                category |-> NULL,
                qty |-> item.quantity,
                lineTotal |-> item.totalMoney]],
        customerIdentity |->
            IF customerEmail # NULL THEN [email |-> customerEmail] ELSE NoRec]

\* verifyWebhookSignature: HMAC over webhookUrl + body
WebhookUrl == "https://app/api/webhooks/square"

verifySquareSignature(body, signature, webhookUrl) ==
    timingSafeEqual(Hmac("base64", Secret("square"), <<webhookUrl, body>>), signature)

----------------------------------------------------------------------------
(* Square webhook processors: app/api/webhooks/square/route.ts *)

\* the payment object of a payment.* event (REST shape)
SquarePaymentPayload(orderId, refunded, email) ==
    [id |-> "p1", order_id |-> orderId, status |-> "COMPLETED",
     amount_money |-> MaxAmount, refunded_money |-> refunded,
     buyer_email_address |-> email]

SquarePaymentEvents ==
    {[payment |-> NoRec], [payment |-> SquarePaymentPayload(NoAmount, NoAmount, NULL)]}
    \cup {[payment |-> SquarePaymentPayload(n, NoAmount, "a@b.com")] : n \in NativeIds}
    \cup {[payment |-> SquarePaymentPayload(n, 1, NULL)] : n \in NativeIds}

SquareOrderEvents ==
    {[order |-> NoRec]} \cup {[order |-> [id |-> n]] : n \in NativeIds}

SquareTopics == {"payment.created", "payment.updated", "order.created",
                 "order.updated", "refund.created"}

SquareEventsOfTopic(topic) ==
    CASE topic \in {"payment.created", "payment.updated"} -> SquarePaymentEvents
      [] topic \in {"order.created", "order.updated"} -> SquareOrderEvents
      [] OTHER -> {[id |-> 1]}

\* handlePaymentWebhook; api is what the Square APIs answer during the call.
\* The branch for an order the warehouse lacks calls upsertOrder, which the
\* route neither defines nor imports: the call throws a ReferenceError.
squareHandlePaymentWebhook(w, event, api, fault) ==
    LET payment == event.payment
    IN IF payment = NoRec THEN Outcome(w, TRUE)
       ELSE IF payment.order_id = NoAmount THEN Outcome(w, TRUE)
       ELSE
         LET externalOrderId == SquareOrderId(payment.order_id)
             existingOrder == FindUnique(w.factOrder, externalOrderId)
         IN IF existingOrder = NoRec
            THEN IF api.order = NoRec THEN Outcome(w, TRUE) ELSE Outcome(w, FALSE)
            ELSE
              LET paymentAmount == AmountOrZero(payment.amount_money)
                  refundedAmount == AmountOrZero(payment.refunded_money)
                  tender == [paymentId |-> payment.id, status |-> payment.status,
                             amount |-> paymentAmount, processingFees |-> <<>>]
                  currentTenders == existingOrder.tendersJson
                  paymentExists == \E i \in 1..Len(currentTenders) :
                                      currentTenders[i].paymentId = payment.id
                  updatedTenders ==
                      IF paymentExists
                      THEN [i \in 1..Len(currentTenders) |->
                              IF currentTenders[i].paymentId = payment.id
                              THEN tender ELSE currentTenders[i]]
                      ELSE Append(currentTenders, tender)
                  newRefundsTotal == existingOrder.refundsTotal + refundedAmount
                  newNetTotal == existingOrder.grossTotal - newRefundsTotal
                  hashes == existingOrder.customerHash = NoId
                            /\ payment.buyer_email_address \notin {NULL, ""}
                  customerHash == IF hashes THEN hashPii(payment.buyer_email_address)
                                  ELSE existingOrder.customerHash
                  w1 == IF hashes
                        THEN [w EXCEPT !.bridgeCustomerIdentity =
                                 TouchIdentity(w.bridgeCustomerIdentity, customerHash)]
                        ELSE w
                  updated == [existingOrder EXCEPT
                                 !.customerHash = customerHash,
                                 !.refundsTotal = newRefundsTotal,
                                 !.netTotal = newNetTotal,
                                 !.tendersJson = updatedTenders,
                                 !.updatedAt = "now",
                                 !.rawJson = [existingOrder.rawJson EXCEPT
                                                 !.lastPaymentUpdate = payment]]
              IN IF fault = "order" THEN Outcome(w1, FALSE)
                 ELSE Outcome([w1 EXCEPT !.factOrder =
                                  UpdateRow(w.factOrder, externalOrderId, updated)],
                              TRUE)

\* the normalized order an order.* event ingests, from the APIs' answer
squareFetchNormalized(api) ==
    squareNormalizeOrder(api.order,
                         reconcilePaymentsToOrders(api.payments, api.order.id))

\* handleOrderWebhook; the update branch of the upsert leaves createdAt alone
squareHandleOrderWebhook(w, event, api, fault) ==
    IF event.order = NoRec THEN Outcome(w, TRUE)
    ELSE IF api.order = NoRec THEN Outcome(w, TRUE)
    ELSE
      LET normalized == squareFetchNormalized(api)
          id == normalized.externalId
          existing == FindUnique(w.factOrder, id)
          bci == IF normalized.customerIdentity # NoRec /\ normalized.customerHash # NoId
                 THEN TouchIdentity(w.bridgeCustomerIdentity, normalized.customerHash)
                 ELSE w.bridgeCustomerIdentity
          w1 == [w EXCEPT !.bridgeCustomerIdentity = bci]
          created == OrderRow(id, [OrderColumns(normalized) EXCEPT !.updatedAt = "now"])
          updated == IF existing = NoRec THEN created
                     ELSE [created EXCEPT !.createdAt = existing.createdAt]
      IN ReplaceOrder(w1, id, created, updated, normalized.lineItems, fault)

\* the switch on the event type in POST
squareDispatch(w, topic, event, api, fault) ==
    CASE topic \in {"payment.created", "payment.updated"} ->
            squareHandlePaymentWebhook(w, event, api, fault)
      [] topic \in {"order.created", "order.updated"} ->
            squareHandleOrderWebhook(w, event, api, fault)
      [] OTHER -> Outcome(w, TRUE)

----------------------------------------------------------------------------
(* Square webhook endpoint: POST *)

SquareBodies(topic) ==
    {JsonBody(e) : e \in SquareEventsOfTopic(topic)} \cup {MalformedBody}

SquarePOST ==
    /\ req = NoReq
    /\ ops > 0
    /\ \E topic \in SquareTopics, sig \in SigCases :
         \E body \in SquareBodies(topic) :
            LET signature == SignedWith(sig, "base64", "square",
                                        <<WebhookUrl, body>>,
                                        <<WebhookUrl, BeforeTamper(body)>>)
            IN IF signature = NoId THEN RespondEarly("square", sig, 401)
               ELSE IF ~verifySquareSignature(body, signature, WebhookUrl)
               THEN RespondEarly("square", sig, 401)
               ELSE IF ~Parses(body) THEN RespondEarly("square", sig, 500)
               ELSE Accept("square", topic, body.json, sig, 1)

SquareKind(topic) ==
    CASE topic \in {"payment.created", "payment.updated"} -> "payment"
      [] topic \in {"order.created", "order.updated"} -> "order"
      [] OTHER -> "ignored"

\* the Square order id an event names, or NoAmount
SquareNative(topic, event) ==
    CASE topic \in {"payment.created", "payment.updated"} ->
            IF event.payment = NoRec THEN NoAmount ELSE event.payment.order_id
      [] topic \in {"order.created", "order.updated"} ->
            IF event.order = NoRec THEN NoAmount ELSE event.order.id
      [] OTHER -> NoAmount

SquareAnswersFor(native) ==
    IF native = NoAmount THEN {[order |-> NoRec, payments |-> <<>>]}
    ELSE SquareApiAnswers(native)

\* what fetchOrderById answered in handlePaymentWebhook, which asks only for
\* an order the warehouse lacks
NotAsked == [asked |-> FALSE]

SquareFetched(event, api, existing) ==
    IF event.payment = NoRec THEN NotAsked
    ELSE IF event.payment.order_id = NoAmount \/ existing # NoRec THEN NotAsked
    ELSE api.order

SquareInput(topic, event, api, existing) ==
    CASE topic \in {"payment.created", "payment.updated"} ->
            [payment |-> event.payment,
             fetched |-> SquareFetched(event, api, existing)]
      [] topic \in {"order.created", "order.updated"} ->
            IF event.order = NoRec \/ api.order = NoRec THEN NoRec
            ELSE squareFetchNormalized(api)
      [] OTHER -> NoRec

SquareHandle ==
    /\ req # NoReq
    /\ req.source = "square"
    /\ LET native == SquareNative(req.topic, req.payload)
           id == IF native = NoAmount THEN NoId ELSE SquareOrderId(native)
           existing == IF id = NoId THEN NoRec ELSE FindUnique(factOrder, id)
       IN \E fault \in Faults, api \in SquareAnswersFor(native) :
            Complete(squareDispatch(CurrentWH, req.topic, req.payload, api, fault),
                     SquareKind(req.topic), id,
                     SquareInput(req.topic, req.payload, api, existing),
                     existing)

----------------------------------------------------------------------------
(* AnyRoad: lib/anyroad.ts and app/api/webhooks/anyroad/route.ts *)

AnyroadBookingId(n) == <<"anyroad", "booking", n>>

\* booking n as AnyRoad sends it, in two versions: with a primary guest and
\* add-ons, and re-priced without them
AnyRoadBooking(n, v) ==
    [id |-> n, event_date |-> "source", start_time |-> "source", end_time |-> NULL,
     total_price |-> IF v = 1 THEN MaxAmount ELSE MaxAmount - 1,
     add_ons_total |-> IF v = 1 THEN 1 ELSE NoAmount,
     guests_count |-> IF v = 1 THEN 2 ELSE NoAmount,
     primary_guest |-> IF v = 1 THEN [id |-> 1, email |-> " a@b.com ", phone |-> NULL]
                       ELSE NoRec,
     experience |-> [category |-> IF v = 1 THEN "tasting" ELSE NULL, name |-> "Tour"],
     cancellation_reason |-> "weather",
     actual_attendance |-> NoAmount]

AnyRoadBookings == {AnyRoadBooking(n, v) : n \in NativeIds, v \in 1..2}

\* normalizeBooking
normalizeBooking(booking) ==
    LET revenue == AmountOrZero(booking.total_price)
        addOnSales == AmountOrZero(booking.add_ons_total)
        guest == booking.primary_guest
        customerHash == IF guest = NoRec THEN NoId
                        ELSE generateCustomerHash(guest.email, guest.phone)
        eventType == IF booking.experience.category \notin {NULL, ""}
                     THEN booking.experience.category
                     ELSE IF booking.experience.name = "Tour" THEN "tour"
                     ELSE "experience"
    IN [externalId |-> AnyroadBookingId(booking.id),
        eventType |-> eventType,
        startsAt |-> booking.event_date,
        endsAt |-> booking.end_time,
        attendees |-> AmountOrZero(booking.guests_count),
        revenue |-> revenue,
        addOnSales |-> addOnSales,
        rawJson |-> [booking |-> booking, cancelled |-> FALSE, completed |-> FALSE],
        customerHash |-> customerHash,
        customerIdentity |->
            IF customerHash # NoId
            THEN [anyroadGuestId |-> <<"anyroad", "guest", guest.id>>,
                  email |-> guest.email, phone |-> guest.phone]
            ELSE NoRec]

\* a variant of verifyWebhookHmac that accepts an HMAC of the body under any
\* key
verifyAnyRoadHmac_AnyKey(body, signature) ==
    Len(signature) = 4 /\ signature[1] = "hmac" /\ signature[4] = body

\* lib/anyroad.ts verifyWebhookHmac: hex HMAC of the raw body
verifyAnyRoadHmac(body, signature) ==
    timingSafeEqual(Hmac("hex", Secret("anyroad"), body), signature)

\* the FactEvent row of a normalized event with every column written
EventRow(n) ==
    [id |-> n.externalId, eventType |-> n.eventType, startsAt |-> n.startsAt,
     endsAt |-> n.endsAt, attendees |-> n.attendees, revenue |-> n.revenue,
     addOnSales |-> n.addOnSales, rawJson |-> n.rawJson,
     customerHash |-> n.customerHash]

\* handleBookingWebhook
handleBookingWebhook(w, bookingData, fault) ==
    LET normalized == normalizeBooking(bookingData)
        bci == IF normalized.customerIdentity # NoRec /\ normalized.customerHash # NoId
               THEN UpsertIdentity(w.bridgeCustomerIdentity, normalized.customerHash,
                        "anyroadGuestId", normalized.customerIdentity.anyroadGuestId)
               ELSE w.bridgeCustomerIdentity
        w1 == [w EXCEPT !.bridgeCustomerIdentity = bci]
        existing == FindUnique(w.factEvent, normalized.externalId)
        \* the webhook's upsert does not write customerHash
        created == [EventRow(normalized) EXCEPT !.customerHash = NoId]
        updated == IF existing = NoRec THEN created
                   ELSE [created EXCEPT !.customerHash = existing.customerHash]
    IN IF fault = "order" THEN Outcome(w1, FALSE)
       ELSE Outcome([w1 EXCEPT !.factEvent =
                        UpsertRow(w.factEvent, normalized.externalId, created, updated)],
                    TRUE)

\* a variant of handleBookingCancellation that removes the cancelled event
handleBookingCancellation_Deletes(w, bookingData, fault) ==
    LET eventId == AnyroadBookingId(bookingData.id)
    IN IF fault = "order" THEN Outcome(w, FALSE)
       ELSE Outcome([w EXCEPT !.factEvent = {e \in w.factEvent : e.id # eventId}],
                    TRUE)

\* handleBookingCancellation
handleBookingCancellation(w, bookingData, fault) ==
    LET eventId == AnyroadBookingId(bookingData.id)
        existingEvent == FindUnique(w.factEvent, eventId)
    IN IF existingEvent = NoRec THEN Outcome(w, TRUE)
       ELSE IF fault = "order" THEN Outcome(w, FALSE)
       ELSE
         LET updated == [existingEvent EXCEPT
                            !.revenue = 0, !.addOnSales = 0,
                            !.rawJson = [existingEvent.rawJson EXCEPT
                                            !.cancelled = TRUE]]
         IN Outcome([w EXCEPT !.factEvent = UpdateRow(w.factEvent, eventId, updated)],
                    TRUE)

\* handleBookingCompletion
handleBookingCompletion(w, bookingData, fault) ==
    LET eventId == AnyroadBookingId(bookingData.id)
        existingEvent == FindUnique(w.factEvent, eventId)
    IN IF existingEvent = NoRec THEN handleBookingWebhook(w, bookingData, fault)
       ELSE IF fault = "order" THEN Outcome(w, FALSE)
       ELSE
         LET updated == [existingEvent EXCEPT
                            !.rawJson = [existingEvent.rawJson EXCEPT
                                            !.completed = TRUE]]
         IN Outcome([w EXCEPT !.factEvent = UpdateRow(w.factEvent, eventId, updated)],
                    TRUE)

AnyRoadTopics == {"booking.created", "booking.updated", "booking.cancelled",
                  "booking.completed", "experience.created", "experience.updated",
                  "unknown"}

AnyRoadBookingTopics == {"booking.created", "booking.updated", "booking.cancelled",
                         "booking.completed"}

AnyRoadPayloadsOfTopic(topic) ==
    IF topic \in AnyRoadBookingTopics THEN {[data |-> b] : b \in AnyRoadBookings}
    ELSE {[data |-> [id |-> 1]]}

\* the switch on the event type in POST
anyroadDispatch(w, topic, bookingData, fault) ==
    CASE topic \in {"booking.created", "booking.updated"} ->
            handleBookingWebhook(w, bookingData, fault)
      [] topic = "booking.cancelled" -> handleBookingCancellation(w, bookingData, fault)
      [] topic = "booking.completed" -> handleBookingCompletion(w, bookingData, fault)
      [] OTHER -> Outcome(w, TRUE)

AnyRoadBodies(topic) ==
    {JsonBody(p) : p \in AnyRoadPayloadsOfTopic(topic)} \cup {MalformedBody}

AnyRoadPOST ==
    /\ req = NoReq
    /\ ops > 0
    /\ \E topic \in AnyRoadTopics, sig \in SigCases :
         \E body \in AnyRoadBodies(topic) :
            LET signature == SignedWith(sig, "hex", "anyroad", body,
                                        BeforeTamper(body))
            IN IF signature = NoId THEN RespondEarly("anyroad", sig, 401)
               ELSE IF ~verifyAnyRoadHmac(body, signature)
               THEN RespondEarly("anyroad", sig, 401)
               ELSE IF ~Parses(body) THEN RespondEarly("anyroad", sig, 500)
               ELSE Accept("anyroad", topic, body.json, sig, body.json.data.id)

AnyRoadKind(topic) ==
    CASE topic \in {"booking.created", "booking.updated"} -> "booking"
      [] topic = "booking.cancelled" -> "cancel"
      [] topic = "booking.completed" -> "complete"
      [] OTHER -> "ignored"

AnyRoadHandle ==
    /\ req # NoReq
    /\ req.source = "anyroad"
    /\ \E fault \in Faults :
         LET bookingData == req.payload.data
             booking == req.topic \in AnyRoadBookingTopics
             id == IF booking THEN AnyroadBookingId(bookingData.id) ELSE NoId
         IN Complete(anyroadDispatch(CurrentWH, req.topic, bookingData, fault),
                     AnyRoadKind(req.topic), id,
                     IF booking THEN normalizeBooking(bookingData) ELSE NoRec,
                     IF booking THEN FindUnique(factEvent, id) ELSE NoRec)

----------------------------------------------------------------------------
(* Backfill and resync persistence of one order: upsertOrder of the        *)
(* Shopify backfill script, upsertOrder of scripts/square-backfill.ts,     *)
(* and the loop bodies of the admin resync route                           *)

\* the orders of the Shopify Admin API (GraphQL shape): order n as the
\* webhook payload of version v describes it
ShopifyGraphqlOrder(n, v) == transformWebhookToOrder(ShopifyOrderPayload(n, v))

ShopifyGraphqlOrders == {ShopifyGraphqlOrder(n, v) : n \in NativeIds, v \in Versions}

\* const { lineItems, customerIdentity, ...orderData } = order; identity
\* upsert when present; factOrder.upsert with create: { id, ...orderData }
\* and update: { ...orderData, updatedAt: new Date() }; lines replaced.
\* field is the native-id column the identity upsert names; a normalized
\* order that carries no such value leaves the column as it is.
PersistOrder(w, order, field, fault) ==
    LET id == order.externalId
        bci == IF order.customerIdentity # NoRec /\ order.customerHash # NoId
               THEN IF field \in DOMAIN order.customerIdentity
                    THEN UpsertIdentity(w.bridgeCustomerIdentity, order.customerHash,
                                        field, order.customerIdentity[field])
                    ELSE TouchIdentity(w.bridgeCustomerIdentity, order.customerHash)
               ELSE w.bridgeCustomerIdentity
        w1 == [w EXCEPT !.bridgeCustomerIdentity = bci]
        created == OrderRow(id, OrderColumns(order))
        updated == [created EXCEPT !.updatedAt = "now"]
    IN ReplaceOrder(w1, id, created, updated, order.lineItems, fault)

\* a variant of upsertOrder whose update branch adds the incoming refunds
\* to the stored ones
upsertOrder_Accumulating(w, order, fault) ==
    LET existing == FindUnique(w.factOrder, order.externalId)
        refunds == IF existing = NoRec THEN order.refundsTotal
                   ELSE existing.refundsTotal + order.refundsTotal
    IN PersistOrder(w, [order EXCEPT !.refundsTotal = refunds,
                                     !.netTotal = order.grossTotal - refunds],
                    "shopifyCustomerId", fault)

\* upsertOrder of the Shopify backfill script
upsertOrder(w, order, fault) == PersistOrder(w, order, "shopifyCustomerId", fault)

\* scripts/square-backfill.ts upsertOrder
squareUpsertOrder(w, order, fault) == PersistOrder(w, order, "squareCustomerId", fault)

\* the normalized orders a Square backfill can hold
SquareNormalizedOrders ==
    {squareFetchNormalized(api) :
        api \in {a \in UNION {SquareApiAnswers(n) : n \in NativeIds} : a.order # NoRec}}

FinishUpsert(source, order, out) ==
    /\ SetWarehouse(out.wh)
    /\ Finish(Op("backfill", source, "upsert", "none", 0, order.externalId, NoRec,
                 order, FindUnique(factOrder, order.externalId), out.ok))
    /\ ops' = ops - 1
    /\ UNCHANGED <<ingestAudit, req, bf, aside>>

\* one call of the Shopify backfill's upsertOrder
ShopifyUpsertOrder ==
    /\ req = NoReq
    /\ ops > 0
    /\ \E raw \in ShopifyGraphqlOrders, fault \in Faults :
         LET order == normalizeOrder(raw)
         IN FinishUpsert("shopify", order, upsertOrder(CurrentWH, order, fault))

\* one call of the Square backfill's upsertOrder
SquareUpsertOrder ==
    /\ req = NoReq
    /\ ops > 0
    /\ \E order \in SquareNormalizedOrders, fault \in Faults :
         FinishUpsert("square", order, squareUpsertOrder(CurrentWH, order, fault))

----------------------------------------------------------------------------
(* Admin resync: app/api/admin/resync/route.ts *)

\* a variant of verifyAuth without the test for a configured secret
verifyAuth_Unconfigured(authHeader, secret) == authHeader = secret

\* verifyAuth: the x-webhook-secret header against WEBHOOK_SECRET
verifyAuth(authHeader, secret) ==
    IF secret = NULL \/ secret = "" THEN FALSE ELSE authHeader = secret

\* where a write of a resync or backfill run fails: the at-th record of a
\* source's loop, at the order/event write or at the line insert
NoFail == [source |-> "none", at |-> 0, kind |-> "none"]

FaultAt(fail, source, k) ==
    IF fail.source = source /\ fail.at = k THEN fail.kind ELSE "none"

Ran(w, ok, done) == [wh |-> w, ok |-> ok, done |-> done]

\* the for loop over the normalized orders: the first throw ends the run
RECURSIVE PersistEach(_, _, _, _, _, _)
PersistEach(w, orders, field, source, fail, done) ==
    IF orders = <<>> THEN Ran(w, TRUE, done)
    ELSE LET out == PersistOrder(w, Head(orders), field,
                                 FaultAt(fail, source, Len(done) + 1))
         IN IF out.ok
            THEN PersistEach(out.wh, Tail(orders), field, source, fail,
                             Append(done, Head(orders)))
            ELSE Ran(out.wh, FALSE, done)

\* identity upsert and factEvent.upsert with update: { ...eventData }
PersistEvent(w, event, fault) ==
    LET bci == IF event.customerIdentity # NoRec /\ event.customerHash # NoId
               THEN UpsertIdentity(w.bridgeCustomerIdentity, event.customerHash,
                        "anyroadGuestId", event.customerIdentity.anyroadGuestId)
               ELSE w.bridgeCustomerIdentity
        w1 == [w EXCEPT !.bridgeCustomerIdentity = bci]
        row == EventRow(event)
    IN IF fault = "order" THEN Outcome(w1, FALSE)
       ELSE Outcome([w1 EXCEPT !.factEvent =
                        UpsertRow(w.factEvent, event.externalId, row, row)], TRUE)

RECURSIVE PersistEachEvent(_, _, _, _)
PersistEachEvent(w, events, fail, done) ==
    IF events = <<>> THEN Ran(w, TRUE, done)
    ELSE LET out == PersistEvent(w, Head(events),
                                 FaultAt(fail, "anyroad", Len(done) + 1))
         IN IF out.ok
            THEN PersistEachEvent(out.wh, Tail(events), fail,
                                  Append(done, Head(events)))
            ELSE Ran(out.wh, FALSE, done)

normalizeOrders(orders) == [i \in 1..Len(orders) |-> normalizeOrder(orders[i])]

normalizeBookings(bookings) ==
    [i \in 1..Len(bookings) |-> normalizeBooking(bookings[i])]

\* fetched is what the source answered for the date: failure, or the records
resyncShopify(w, fetched, fail) ==
    IF ~fetched.ok THEN Ran(w, FALSE, <<>>)
    ELSE PersistEach(w, normalizeOrders(fetched.records), "shopifyCustomerId",
                     "shopify", fail, <<>>)

resyncSquare(w, fetched, fail) ==
    IF ~fetched.ok THEN Ran(w, FALSE, <<>>)
    ELSE PersistEach(w, [i \in 1..Len(fetched.records) |->
                            squareFetchNormalized(fetched.records[i])],
                     "squareCustomerId", "square", fail, <<>>)

resyncAnyRoad(w, fetched, fail) ==
    IF ~fetched.ok THEN Ran(w, FALSE, <<>>)
    ELSE PersistEachEvent(w, normalizeBookings(fetched.records), fail, <<>>)

Fetched(ok, records) == [ok |-> ok, records |-> records]

ShopifyFetches ==
    {Fetched(FALSE, <<>>), Fetched(TRUE, <<>>),
     Fetched(TRUE, <<ShopifyGraphqlOrder(1, 1)>>),
     Fetched(TRUE, <<ShopifyGraphqlOrder(1, 3), ShopifyGraphqlOrder(MaxOrderId, 2)>>)}

SquareAnswer(n, v) ==
    CHOOSE a \in SquareApiAnswers(n) : a.order # NoRec /\ a.order = SquareOrder(n, v)

SquareFetches ==
    {Fetched(FALSE, <<>>), Fetched(TRUE, <<>>),
     Fetched(TRUE, <<SquareAnswer(1, 2)>>),
     Fetched(TRUE, <<SquareAnswer(1, 1), SquareAnswer(MaxOrderId, 2)>>)}

AnyRoadFetches ==
    {Fetched(FALSE, <<>>), Fetched(TRUE, <<>>),
     Fetched(TRUE, <<AnyRoadBooking(1, 1)>>),
     Fetched(TRUE, <<AnyRoadBooking(1, 2), AnyRoadBooking(MaxOrderId, 1)>>)}

ResyncSources == {"shopify", "square", "anyroad", "all", "stripe"}

AuthHeaders == {NULL, "wrong", "s3cret"}
ConfiguredSecrets == {NULL, "s3cret"}

\* the writes that can fail during the sources that run
ResyncFails(source) ==
    {NoFail} \cup
    {[source |-> s, at |-> k, kind |-> f] :
        s \in {x \in {"shopify", "square", "anyroad"} : source \in {"all", x}},
        k \in 1..2, f \in {"order", "lines"}}

\* for a source that does not run nothing is fetched
FetchesFor(source, mine, fetches) ==
    IF source \in {"all", mine} THEN fetches ELSE {Fetched(TRUE, <<>>)}

\* the count a source's resync returned; a throw is reported as 0
ResyncCount(out) == IF out.ok THEN Len(out.done) ELSE 0

\* a variant of ResyncAudit that records a failed source as a success
ResyncAudit_AlwaysSuccess(audit, runs, source, out) ==
    IF runs
    THEN Append(audit, AuditRow(source, <<"resync", source>>, "success",
                                [count |-> ResyncCount(out)], NULL))
    ELSE audit

\* ingestAudit.create after a source: payload { date, count } on success,
\* { date } and the error message in the catch block
ResyncAudit(audit, runs, source, out) ==
    IF runs
    THEN Append(audit, AuditRow(source, <<"resync", source>>,
                                IF out.ok THEN "success" ELSE "failed",
                                IF out.ok THEN [count |-> ResyncCount(out)] ELSE NoRec,
                                IF out.ok THEN NULL ELSE "message"))
    ELSE audit

\* the results object of the response: a count per source that ran
ResyncResults(runs, outs) ==
    [s \in {x \in DOMAIN outs : runs[x]} |-> ResyncCount(outs[s])]

\* what a request did, kept with the finished operation: the orders it
\* persisted, the results object it answered with, the sources that threw
ResyncDid(done, results, threw) ==
    [orders |-> done, results |-> results, threw |-> threw]

NothingDone == ResyncDid(<<>>, [s \in {} |-> 0], {})

\* a request to the route as it arrives, with the secret the server has
AdminRequest(method, authHeader, secret) ==
    [method |-> method, authHeader |-> authHeader, secret |-> secret]

FinishResync(source, request, auth, status, w, audit, did, ok) ==
    /\ SetWarehouse(w)
    /\ ingestAudit' = audit
    /\ Finish(Op("resync", source, "resync", auth, status, NoId, request,
                 did, NoRec, ok))
    /\ ops' = ops - 1
    /\ UNCHANGED <<req, bf, aside>>

\* POST /api/admin/resync
ResyncPOST ==
    /\ req = NoReq
    /\ ops > 0
    /\ \E authHeader \in AuthHeaders, secret \in ConfiguredSecrets,
          source \in ResyncSources :
         IF ~verifyAuth(authHeader, secret)
         THEN FinishResync(source, AdminRequest("POST", authHeader, secret),
                           "unauthorized", 401, CurrentWH, ingestAudit,
                           NothingDone, FALSE)
         ELSE IF source \notin {"shopify", "square", "anyroad", "all"}
         THEN FinishResync(source, AdminRequest("POST", authHeader, secret),
                           "authorized", 400, CurrentWH, ingestAudit,
                           NothingDone, FALSE)
         ELSE
           \E sh \in FetchesFor(source, "shopify", ShopifyFetches),
              sq \in FetchesFor(source, "square", SquareFetches),
              ar \in FetchesFor(source, "anyroad", AnyRoadFetches),
              fail \in ResyncFails(source) :
             \E runsSh \in {source \in {"all", "shopify"}},
                runsSq \in {source \in {"all", "square"}},
                runsAr \in {source \in {"all", "anyroad"}} :
             \E outSh \in {IF runsSh THEN resyncShopify(CurrentWH, sh, fail)
                           ELSE Ran(CurrentWH, TRUE, <<>>)} :
             \E outSq \in {IF runsSq THEN resyncSquare(outSh.wh, sq, fail)
                           ELSE Ran(outSh.wh, TRUE, <<>>)} :
             \E outAr \in {IF runsAr THEN resyncAnyRoad(outSq.wh, ar, fail)
                           ELSE Ran(outSq.wh, TRUE, <<>>)} :
             LET audit == ResyncAudit(
                            ResyncAudit(
                              ResyncAudit(ingestAudit, runsSh, "shopify", outSh),
                              runsSq, "square", outSq),
                            runsAr, "anyroad", outAr)
                 runs == [shopify |-> runsSh, square |-> runsSq, anyroad |-> runsAr]
                 outs == [shopify |-> outSh, square |-> outSq, anyroad |-> outAr]
             IN FinishResync(source, AdminRequest("POST", authHeader, secret),
                             "authorized", 200, outAr.wh, audit,
                             ResyncDid(outSh.done \o outSq.done,
                                       ResyncResults(runs, outs),
                                       {s \in DOMAIN outs : ~outs[s].ok}),
                             outSh.ok /\ outSq.ok /\ outAr.ok)

\* GET /api/admin/resync: the recent resync rows of the audit, read only
ResyncGET ==
    /\ req = NoReq
    /\ ops > 0
    /\ \E authHeader \in AuthHeaders, secret \in ConfiguredSecrets,
          findMany \in BOOLEAN :
         LET request == AdminRequest("GET", authHeader, secret)
         IN IF ~verifyAuth(authHeader, secret)
            THEN FinishResync("all", request, "unauthorized", 401, CurrentWH,
                              ingestAudit, NothingDone, FALSE)
            ELSE FinishResync("all", request, "authorized",
                              IF findMany THEN 200 ELSE 500, CurrentWH,
                              ingestAudit, NothingDone, findMany)

----------------------------------------------------------------------------
(* Shopify backfill script: checkpoints, pages, date windows               *)

DATE_WINDOW_DAYS == 7

\* days are counted from the start of the lookback range; the script runs
\* on day Today and looks back Today days
Today == DATE_WINDOW_DAYS + 2

\* the orders of the shop: ids grow with the creation day; all but the last
\* fall into the first date window
SourceIds == 1..MaxSourceId

OrderDay(n) == IF n < MaxSourceId THEN 2 * n - 1 ELSE DATE_WINDOW_DAYS + 1

RECURSIVE Ascending(_)
Ascending(S) ==
    IF S = {} THEN <<>>
    ELSE LET m == CHOOSE x \in S : \A y \in S : x <= y
         IN <<m>> \o Ascending(S \ {m})

FirstN(seq, n) == SubSeq(seq, 1, IF Len(seq) < n THEN Len(seq) ELSE n)

\* fetchOrdersByDateRange: orders created in [startDate, endDate], sorted by
\* creation, after the cursor (0: from the start), one page of PageLimit
fetchOrdersByDateRange(startDate, endDate, cursor) ==
    LET matching == Ascending({n \in SourceIds :
                        OrderDay(n) >= startDate /\ OrderDay(n) <= endDate
                        /\ n > cursor})
        page == FirstN(matching, PageLimit)
    IN [orders |-> [i \in 1..Len(page) |-> ShopifyGraphqlOrder(page[i], 1)],
        ids |-> page,
        pageInfo |-> [hasNextPage |-> Len(matching) > Len(page),
                      endCursor |-> IF page = <<>> THEN 0 ELSE page[Len(page)]]]

Checkpoint(startDate, endDate, cursor, processedCount) ==
    [startDate |-> startDate, endDate |-> endDate, cursor |-> cursor,
     processedCount |-> processedCount]

IsCheckpoint(row, source) ==
    row.source = source /\ row.type = <<"backfill", "checkpoint">>
    /\ row.status = "success"

\* saveCheckpoint
saveCheckpoint(audit, source, checkpoint) ==
    Append(audit, AuditRow(source, <<"backfill", "checkpoint">>, "success",
                           checkpoint, NULL))

\* getLastCheckpoint: the payload of the latest checkpoint row, or NoRec
getLastCheckpoint(audit) ==
    LET found == {i \in 1..Len(audit) : IsCheckpoint(audit[i], "shopify")}
    IN IF found = {} THEN NoRec
       ELSE audit[CHOOSE i \in found : \A j \in found : j <= i].subject

\* a variant of batchUpsertOrders that returns at the first failed upsert
batchUpsertOrders_Aborts(w, orders, faults, successCount) ==
    LET outs[k \in 0..Len(orders)] ==
            IF k = 0 THEN [wh |-> w, successCount |-> successCount, on |-> TRUE]
            ELSE LET before == outs[k - 1]
                     out == upsertOrder(before.wh, orders[k], faults[k])
                 IN IF ~before.on THEN before
                    ELSE IF out.ok
                    THEN [wh |-> out.wh, successCount |-> before.successCount + 1,
                          on |-> TRUE]
                    ELSE [wh |-> out.wh, successCount |-> before.successCount,
                          on |-> FALSE]
    IN [wh |-> outs[Len(orders)].wh, successCount |-> outs[Len(orders)].successCount]

\* batchUpsertOrders: a failed upsert is logged and the loop goes on
RECURSIVE batchUpsertOrders(_, _, _, _)
batchUpsertOrders(w, orders, faults, successCount) ==
    IF orders = <<>> THEN [wh |-> w, successCount |-> successCount]
    ELSE LET out == upsertOrder(w, Head(orders), Head(faults))
         IN batchUpsertOrders(out.wh, Tail(orders), Tail(faults),
                              IF out.ok THEN successCount + 1 ELSE successCount)

\* the write faults of the upserts of one page
PageFaults(n) == [1..n -> {"none", "order"}]

\* the state of a run of backfillShopify between two awaits
ShopifyRun(pc, currentStart, actualEnd, resumeCursor, cursor, totalProcessed, pending, pages, log) ==
    [source |-> "shopify", pc |-> pc, currentStart |-> currentStart,
     actualEnd |-> actualEnd, resumeCursor |-> resumeCursor, cursor |-> cursor,
     totalProcessed |-> totalProcessed, pending |-> pending, pages |-> pages,
     log |-> log]

\* what a run has done so far: the checkpoint it resumed from, whether the
\* warehouse held no order when it started, whether no fetch and no write
\* has failed, whether the processing of a window has thrown, the ids it
\* fetched
RunLog(resumedFrom, startedEmpty, clean, windowFailed, fetched) ==
    [resumedFrom |-> resumedFrom, startedEmpty |-> startedEmpty,
     clean |-> clean, windowFailed |-> windowFailed, fetched |-> fetched]

Min(a, b) == IF a < b THEN a ELSE b

\* a run ends: completed, failed on a window, or killed
EndRun(source, how, run) ==
    /\ Finish(Op("backfill", source, "run", "none", 0, NoId, NoRec,
                 [how |-> how, pc |-> run.pc, pages |-> run.pages,
                  pending |-> run.pending, log |-> run.log],
                 NoRec, how = "complete"))
    /\ bf' = NoRec
    /\ UNCHANGED aside

\* a variant of the loop test that ends the run without its
\* backfill_complete row
EnterWindow_NoCompleteRow(w, audit, currentStart, resumeCursor, totalProcessed, log) ==
    IF currentStart < Today
    THEN /\ bf' = ShopifyRun("fetch", currentStart,
                             Min(currentStart + DATE_WINDOW_DAYS, Today),
                             resumeCursor, resumeCursor, totalProcessed,
                             NoRec, 0, log)
         /\ ingestAudit' = audit
         /\ SetWarehouse(w)
         /\ UNCHANGED <<lastOp, prevOp, aside>>
    ELSE /\ ingestAudit' = audit
         /\ SetWarehouse(w)
         /\ EndRun("shopify", "complete",
                   ShopifyRun("done", currentStart, Today, resumeCursor, 0,
                              totalProcessed, NoRec, 0, log))

\* the while loop of backfillShopify at its test: the next window, or the
\* backfill_complete row
EnterWindow(w, audit, currentStart, resumeCursor, totalProcessed, log) ==
    IF currentStart < Today
    THEN /\ bf' = ShopifyRun("fetch", currentStart,
                             Min(currentStart + DATE_WINDOW_DAYS, Today),
                             resumeCursor, resumeCursor, totalProcessed,
                             NoRec, 0, log)
         /\ ingestAudit' = audit
         /\ SetWarehouse(w)
         /\ UNCHANGED <<lastOp, prevOp, aside>>
    ELSE /\ ingestAudit' = Append(audit,
                AuditRow("shopify", <<"backfill", "complete">>, "success",
                         totalProcessed, NULL))
         /\ SetWarehouse(w)
         /\ EndRun("shopify", "complete",
                   ShopifyRun("done", currentStart, Today, resumeCursor, 0,
                              totalProcessed, NoRec, 0, log))

\* backfillShopify up to its first window
ShopifyBackfillStart ==
    /\ bf = NoRec /\ req = NoReq
    /\ ops > 0
    /\ ops' = ops - 1
    /\ UNCHANGED req
    /\ LET checkpoint == getLastCheckpoint(ingestAudit)
           currentStart == IF checkpoint # NoRec THEN checkpoint.endDate ELSE 0
           resumeCursor == IF checkpoint # NoRec THEN checkpoint.cursor ELSE 0
       IN EnterWindow(CurrentWH, ingestAudit, currentStart, resumeCursor, 0,
                      RunLog(checkpoint, factOrder = {}, TRUE, FALSE, {}))

\* processDateWindow: one page fetched, normalized and upserted; a fetch
\* that throws ends the run with a backfill_error row
ShopifyBackfillPageWith(fetchOk) ==
    /\ bf # NoRec /\ bf.source = "shopify" /\ bf.pc = "fetch"
    /\ UNCHANGED <<req, ops>>
    /\ IF ~fetchOk
       THEN /\ ingestAudit' = Append(ingestAudit,
                  AuditRow("shopify", <<"backfill", "error">>, "failed",
                           Checkpoint(bf.currentStart, bf.actualEnd, 0, 0),
                           "message"))
            /\ UNCHANGED warehouse
            /\ EndRun("shopify", "failed",
                      [bf EXCEPT !.log.clean = FALSE,
                                 !.log.windowFailed = TRUE])
       ELSE
         \E got \in {fetchOrdersByDateRange(bf.currentStart, bf.actualEnd, bf.cursor)} :
            IF Len(got.orders) = 0
            THEN EnterWindow(CurrentWH, ingestAudit, bf.actualEnd + 1,
                             bf.resumeCursor, bf.totalProcessed, bf.log)
            ELSE \E faults \in PageFaults(Len(got.orders)),
                    normalizedOrders \in {normalizeOrders(got.orders)} :
                 \E out \in {batchUpsertOrders(CurrentWH, normalizedOrders, faults, 0)} :
                   LET total == bf.totalProcessed + out.successCount
                   IN /\ SetWarehouse(out.wh)
                      /\ bf' = [bf EXCEPT
                            !.pc = "checkpoint",
                            !.totalProcessed = total,
                            !.pending = [pageInfo |-> got.pageInfo,
                                         ids |-> SeqToSet(got.ids)],
                            !.log.clean = bf.log.clean
                                /\ out.successCount = Len(got.orders),
                            !.log.fetched = bf.log.fetched \cup SeqToSet(got.ids)]
                      /\ UNCHANGED <<ingestAudit, lastOp, prevOp, aside>>

\* the source answers the request of a page or fails it
ShopifyBackfillPage == \E fetchOk \in BOOLEAN : ShopifyBackfillPageWith(fetchOk)

\* a page of a source that answers every request
ShopifyBackfillPageAnswered == ShopifyBackfillPageWith(TRUE)

\* processDateWindow after the upserts of a page: saveCheckpoint, then the
\* next page or the end of the window
ShopifyBackfillCheckpoint ==
    /\ bf # NoRec /\ bf.source = "shopify" /\ bf.pc = "checkpoint"
    /\ UNCHANGED <<req, ops>>
    /\ LET pageInfo == bf.pending.pageInfo
           audit == saveCheckpoint(ingestAudit, "shopify",
                        Checkpoint(bf.currentStart, bf.actualEnd,
                                   pageInfo.endCursor, bf.totalProcessed))
       IN IF ~pageInfo.hasNextPage
          THEN EnterWindow(CurrentWH, audit, bf.actualEnd + 1, bf.resumeCursor,
                           bf.totalProcessed, bf.log)
          ELSE /\ ingestAudit' = audit
               /\ bf' = [bf EXCEPT !.pc = "fetch", !.cursor = pageInfo.endCursor,
                                   !.pages = bf.pages + 1,
                                   !.pending = [bf.pending EXCEPT !.ids = {}]]
               /\ UNCHANGED <<warehouse, lastOp, prevOp, aside>>

\* the process of a running backfill is killed
BackfillAbort ==
    /\ bf # NoRec
    /\ EndRun(bf.source, "aborted", bf)
    /\ UNCHANGED <<warehouse, ingestAudit, req, ops>>

----------------------------------------------------------------------------
(* Square and AnyRoad backfill scripts *)

SquareLocations == <<"L1", "L2">>

\* the orders (with their payments) Square holds for a location
SquareOrdersAt(locationId) ==
    IF locationId = "L1" THEN <<SquareAnswer(1, 1)>>
    ELSE <<SquareAnswer(MaxOrderId, 2)>>

\* scripts/square-backfill.ts batchUpsertOrders
RECURSIVE squareBatchUpsertOrders(_, _, _, _)
squareBatchUpsertOrders(w, orders, faults, successCount) ==
    IF orders = <<>> THEN [wh |-> w, successCount |-> successCount]
    ELSE LET out == squareUpsertOrder(w, Head(orders), Head(faults))
         IN squareBatchUpsertOrders(out.wh, Tail(orders), Tail(faults),
                                    IF out.ok THEN successCount + 1 ELSE successCount)

\* processLocationDateRange; how is "throws" when a fetch fails, else the
\* write fault of the upserts
processLocationDateRange(w, audit, locationId, how) ==
    IF how = "throws" THEN [wh |-> w, audit |-> audit, ok |-> FALSE, count |-> 0]
    ELSE
      LET allOrders == SquareOrdersAt(locationId)
          normalizedOrders == [i \in 1..Len(allOrders) |->
                                  squareFetchNormalized(allOrders[i])]
          out == squareBatchUpsertOrders(w, normalizedOrders,
                     [i \in 1..Len(allOrders) |-> how], 0)
      IN IF Len(allOrders) = 0
         THEN [wh |-> w, audit |-> audit, ok |-> TRUE, count |-> 0]
         ELSE [wh |-> out.wh,
               audit |-> saveCheckpoint(audit, "square",
                            [locationId |-> locationId, startDate |-> 0,
                             endDate |-> Today,
                             processedOrders |-> Len(allOrders)]),
               ok |-> TRUE, count |-> out.successCount]

\* the for loop over the locations in backfillSquare: a location that
\* throws gets a backfill_error row and the loop goes on
RECURSIVE squareEachLocation(_, _, _, _, _)
squareEachLocation(w, audit, locations, hows, log) ==
    IF locations = <<>> THEN [wh |-> w, audit |-> audit, log |-> log]
    ELSE
      LET out == processLocationDateRange(w, audit, Head(locations), Head(hows))
          audit1 == IF out.ok THEN out.audit
                    ELSE Append(out.audit,
                           AuditRow("square", <<"backfill", "error">>, "failed",
                                    [locationId |-> Head(locations)], "message"))
          log1 == [log EXCEPT
                     !.clean = log.clean /\ out.ok
                               /\ out.count = Len(SquareOrdersAt(Head(locations))),
                     !.windowFailed = log.windowFailed \/ ~out.ok]
      IN squareEachLocation(out.wh, audit1, Tail(locations), Tail(hows), log1)

FinishedRun(log) == [pc |-> "done", pages |-> 0, pending |-> NoRec, log |-> log]

\* backfillSquare
SquareBackfill ==
    /\ bf = NoRec /\ req = NoReq
    /\ ops > 0
    /\ ops' = ops - 1
    /\ UNCHANGED req
    /\ \E locations \in {<<>>, SquareLocations},
          hows \in [1..Len(SquareLocations) -> {"throws", "none", "order"}] :
         LET log == RunLog(NoRec, factOrder = {}, TRUE, FALSE, {})
         IN IF Len(locations) = 0
            THEN /\ UNCHANGED <<warehouse, ingestAudit>>
                 /\ EndRun("square", "failed", FinishedRun([log EXCEPT !.clean = FALSE]))
            ELSE LET out == squareEachLocation(CurrentWH, ingestAudit, locations,
                                               hows, log)
                 IN /\ SetWarehouse(out.wh)
                    /\ ingestAudit' = Append(out.audit,
                          AuditRow("square", <<"backfill", "complete">>,
                                   "success", 0, NULL))
                    /\ EndRun("square", "complete", FinishedRun(out.log))

AnyRoadSourceBookings == <<AnyRoadBooking(1, 1), AnyRoadBooking(MaxOrderId, 2)>>

\* scripts/anyroad-backfill.ts upsertEvent
upsertEvent(w, event, fault) == PersistEvent(w, event, fault)

\* batchUpsertEvents
RECURSIVE batchUpsertEvents(_, _, _, _)
batchUpsertEvents(w, events, faults, successCount) ==
    IF events = <<>> THEN [wh |-> w, successCount |-> successCount]
    ELSE LET out == upsertEvent(w, Head(events), Head(faults))
         IN batchUpsertEvents(out.wh, Tail(events), Tail(faults),
                              IF out.ok THEN successCount + 1 ELSE successCount)

\* backfillAnyRoad: experiences, bookings, backfill_complete; any throw is
\* recorded as backfill_error and raised again
AnyRoadBackfill ==
    /\ bf = NoRec /\ req = NoReq
    /\ ops > 0
    /\ ops' = ops - 1
    /\ UNCHANGED req
    /\ \E experiencesOk \in BOOLEAN, bookingsOk \in BOOLEAN,
          faults \in [1..Len(AnyRoadSourceBookings) -> {"none", "order"}] :
         LET log == RunLog(NoRec, factOrder = {}, TRUE, FALSE, {})
         IN IF ~experiencesOk \/ ~bookingsOk
            THEN /\ UNCHANGED warehouse
                 /\ ingestAudit' = Append(ingestAudit,
                       AuditRow("anyroad", <<"backfill", "error">>, "failed",
                                0, "message"))
                 /\ EndRun("anyroad", "failed",
                           FinishedRun([log EXCEPT !.clean = FALSE,
                                                   !.windowFailed = TRUE]))
            ELSE LET out == batchUpsertEvents(CurrentWH,
                                normalizeBookings(AnyRoadSourceBookings), faults, 0)
                     saved == saveCheckpoint(ingestAudit, "anyroad",
                                  [startDate |-> 0, endDate |-> Today,
                                   processedBookings |-> out.successCount])
                 IN /\ SetWarehouse(out.wh)
                    /\ ingestAudit' = Append(saved,
                          AuditRow("anyroad", <<"backfill", "complete">>,
                                   "success", out.successCount, NULL))
                    /\ EndRun("anyroad", "complete",
                              FinishedRun([log EXCEPT !.clean =
                                  out.successCount = Len(AnyRoadSourceBookings)]))

----------------------------------------------------------------------------
(* Concurrent ingestions: the database statements of upsertOrder,          *)
(* handleOrderWebhook and upsertEvent, one await at a time                 *)

\* an ingestion in progress: the rows its upsert would create and update,
\* the identity write it makes (value NoId: the column is left undefined),
\* the lines it inserts, and the statement it is at
Task(source, via, kind, id, hash, field, value, created, updated, lineItems) ==
    [source |-> source, via |-> via, kind |-> kind, id |-> id, hash |-> hash,
     field |-> field, value |-> value, created |-> created, updated |-> updated,
     lineItems |-> lineItems, pc |-> "identity"]

\* the customer hash an ingestion upserts the identity of, or NoId
IdentityHash(n) ==
    IF n.customerIdentity # NoRec /\ n.customerHash # NoId THEN n.customerHash
    ELSE NoId

IdentityValue(n, field) ==
    IF n.customerIdentity # NoRec /\ field \in DOMAIN n.customerIdentity
    THEN n.customerIdentity[field] ELSE NoId

\* upsertOrder of a backfill script on a normalized order
UpsertTask(source, field, order) ==
    LET created == OrderRow(order.externalId, OrderColumns(order))
    IN Task(source, "backfill", "order", order.externalId, IdentityHash(order),
            field, IdentityValue(order, field), created,
            [created EXCEPT !.updatedAt = "now"], order.lineItems)

\* handleOrderWebhook of the Shopify route on a payload
WebhookTask(payload) ==
    LET order == normalizeOrder(transformWebhookToOrder(payload))
        row == OrderRow(order.externalId,
                        [OrderColumns(order) EXCEPT !.updatedAt = "now"])
    IN Task("shopify", "webhook", "order", order.externalId, IdentityHash(order),
            "shopifyCustomerId", IdentityValue(order, "shopifyCustomerId"),
            row, row, order.lineItems)

\* upsertEvent of the AnyRoad backfill on a normalized event
EventTask(event) ==
    Task("anyroad", "backfill", "event", event.externalId, IdentityHash(event),
         "anyroadGuestId", IdentityValue(event, "anyroadGuestId"),
         EventRow(event), EventRow(event), <<>>)

TaskCatalog ==
    {WebhookTask(p) : p \in ShopifyOrderPayloads}
    \cup {UpsertTask("shopify", "shopifyCustomerId", normalizeOrder(o)) :
             o \in ShopifyGraphqlOrders}
    \cup {UpsertTask("square", "squareCustomerId", o) : o \in SquareNormalizedOrders}
    \cup {EventTask(normalizeBooking(b)) : b \in AnyRoadBookings}

At(i, pc) == i \in DOMAIN tasks /\ tasks[i].pc = pc

Goto(i, pc) == tasks' = [tasks EXCEPT ![i].pc = pc]

\* an ingestion begins while others are running
TaskStart ==
    /\ Len(tasks) < MaxTasks
    /\ \E t \in TaskCatalog : tasks' = Append(tasks, t)
    /\ UNCHANGED <<warehouse, ingestAudit, req, lastOp, prevOp, ops, bf, call>>

\* await db.bridgeCustomerIdentity.upsert(...)
TaskIdentityStep ==
    \E i \in DOMAIN tasks :
        /\ At(i, "identity")
        /\ LET t == tasks[i]
           IN bridgeCustomerIdentity' =
                 IF t.hash = NoId THEN bridgeCustomerIdentity
                 ELSE IF t.value = NoId
                 THEN TouchIdentity(bridgeCustomerIdentity, t.hash)
                 ELSE UpsertIdentity(bridgeCustomerIdentity, t.hash, t.field, t.value)
        /\ Goto(i, "upsert")
        /\ UNCHANGED <<factOrder, factOrderLine, factEvent, ingestAudit, req,
                       lastOp, prevOp, ops, bf, call>>

\* await db.factOrder.upsert(...) or await db.factEvent.upsert(...)
TaskUpsertStep ==
    \E i \in DOMAIN tasks :
        /\ At(i, "upsert")
        /\ LET t == tasks[i]
           IN IF t.kind = "order"
              THEN /\ factOrder' = UpsertRow(factOrder, t.id, t.created, t.updated)
                   /\ Goto(i, "delete")
                   /\ UNCHANGED factEvent
              ELSE /\ factEvent' = UpsertRow(factEvent, t.id, t.created, t.updated)
                   /\ Goto(i, "done")
                   /\ UNCHANGED factOrder
        /\ UNCHANGED <<factOrderLine, bridgeCustomerIdentity, ingestAudit, req,
                       lastOp, prevOp, ops, bf, call>>

\* await db.factOrderLine.deleteMany({ where: { orderId } })
TaskDeleteStep ==
    \E i \in DOMAIN tasks :
        /\ At(i, "delete")
        /\ factOrderLine' = DeleteLines(factOrderLine, tasks[i].id)
        /\ Goto(i, IF Len(tasks[i].lineItems) = 0 THEN "done" ELSE "create")
        /\ UNCHANGED <<factOrder, factEvent, bridgeCustomerIdentity, ingestAudit,
                       req, lastOp, prevOp, ops, bf, call>>

\* await db.factOrderLine.createMany(...): throws on a repeated line id
TaskCreateStep ==
    \E i \in DOMAIN tasks :
        /\ At(i, "create")
        /\ LET t == tasks[i]
           IN IF CreateManyThrows(factOrderLine, t.id, t.lineItems)
              THEN /\ Goto(i, "failed")
                   /\ UNCHANGED factOrderLine
              ELSE /\ factOrderLine' = factOrderLine \cup LineRows(t.id, t.lineItems)
                   /\ Goto(i, "done")
        /\ UNCHANGED <<factOrder, factEvent, bridgeCustomerIdentity, ingestAudit,
                       req, lastOp, prevOp, ops, bf, call>>

----------------------------------------------------------------------------
(* Library and script calls made on their own *)

Call(fn, args, result) == [fn |-> fn, args |-> args, result |-> result]

\* the functions called here read and write no state: a behaviour is one call
Returns(c) ==
    /\ call = NoCall
    /\ call' = c
    /\ UNCHANGED <<warehouse, ingestAudit, req, lastOp, prevOp, ops, bf, tasks>>

\* hashPii(value) of lib/shopify.ts and of the security helpers
HashPiiCall ==
    \E value \in PiiStrings \cup {NULL} :
        \/ Returns(Call("hashPii", <<value>>, hashPii(value)))
        \/ Returns(Call("securityHashPii", <<value>>, securityHashPii(value)))

\* the batches a backfill page can hold: one record per native id
ShopifyBatches ==
    {[n \in NativeIds |-> normalizeOrder(ShopifyGraphqlOrder(n, vs[n]))] :
        vs \in [NativeIds -> {1, 3}]}

SquareBatches == {[n \in NativeIds |-> squareFetchNormalized(SquareAnswer(n, 1))]}

EventBatches ==
    {[n \in NativeIds |-> normalizeBooking(AnyRoadBooking(n, vs[n]))] :
        vs \in [NativeIds -> 1..2]}

FinishBatch(fn, batch, faults, out) ==
    /\ SetWarehouse(out.wh)
    /\ call' = Call(fn, <<batch, faults>>, out.successCount)
    /\ ops' = ops - 1
    /\ UNCHANGED <<ingestAudit, req, lastOp, prevOp, bf, tasks>>

\* one call of batchUpsertOrders (Shopify, Square) or batchUpsertEvents
BatchUpsertCall ==
    /\ ops > 0
    /\ \/ \E batch \in ShopifyBatches, faults \in [NativeIds -> Faults] :
             FinishBatch("batchUpsertOrders", batch, faults,
                         batchUpsertOrders(CurrentWH, batch, faults, 0))
       \/ \E batch \in SquareBatches, faults \in [NativeIds -> Faults] :
             FinishBatch("squareBatchUpsertOrders", batch, faults,
                         squareBatchUpsertOrders(CurrentWH, batch, faults, 0))
       \/ \E batch \in EventBatches, faults \in [NativeIds -> {"none", "order"}] :
             FinishBatch("batchUpsertEvents", batch, faults,
                         batchUpsertEvents(CurrentWH, batch, faults, 0))

\* payments as the Payments API lists them: with or without an order id,
\* in any state, with or without refund and processing fees
LibPayments ==
    {[id |-> "p", orderId |-> o, amountMoney |-> f[1], status |-> st,
      refundedMoney |-> f[2], processingFee |-> f[3], buyerEmailAddress |-> NULL] :
        o \in NativeIds \cup {NoAmount},
        st \in {"COMPLETED", "PENDING", "FAILED"},
        f \in {<<MaxAmount, NoAmount, <<>>>>, <<MaxAmount - 1, 1, <<1, 1>>>>}}

PaymentLists == UNION {[1..n -> LibPayments] : n \in 0..MaxPayments}

\* one call of reconcilePaymentsToOrders; the result is the map, by order id
ReconcilePaymentsCall ==
    \E payments \in PaymentLists :
        Returns(Call("reconcilePaymentsToOrders", <<payments>>,
                     [o \in NativeIds |-> reconcilePaymentsToOrders(payments, o)]))

\* lib/shopify.ts: rate limit handling
MAX_RETRIES == 3
INITIAL_RETRY_DELAY == 1000

RECURSIVE Pow2(_)
Pow2(n) == IF n = 0 THEN 1 ELSE 2 * Pow2(n - 1)

\* what one fetch of the GraphQL endpoint ends in: a response (status,
\* status text, whether the call limit header is at 90% or more, and the
\* body as response.json() reads it) or a network failure
Response(status, statusText, nearLimit, body) ==
    [status |-> status, statusText |-> statusText, nearLimit |-> nearLimit,
     body |-> body]

NetworkFailure == Response(0, "fetch failed", FALSE, "none")

FinalAnswers(nearLimit) ==
    {Response(200, "OK", nearLimit, "data"),
     Response(200, "OK", nearLimit, "errors"),
     Response(200, "OK", nearLimit, "malformed"),
     Response(401, "Unauthorized", nearLimit, "none"),
     Response(500, "Internal Server Error", nearLimit, "none"),
     NetworkFailure}

\* the source throttles the first `throttled` requests and then answers
Answers(throttled, nearLimit, final) ==
    [i \in 1..(MaxThrottled + 1) |->
        IF i <= throttled THEN Response(429, "Too Many Requests", nearLimit, "none")
        ELSE final]

\* an exception: its class and the parts its message is put together from
Thrown(name, text, status, statusText) ==
    [ok |-> FALSE, data |-> NULL,
     error |-> [name |-> name, message |-> <<text, status, statusText>>]]

StatusString(status) ==
    CASE status = 401 -> "401" [] status = 429 -> "429" [] status = 500 -> "500"
      [] OTHER -> "200"

\* what a call ends in, with the requests it made and the delays it slept
Ended(outcome, requests, slept) ==
    [ok |-> outcome.ok, data |-> outcome.data, error |-> outcome.error,
     requests |-> requests, slept |-> slept]

\* a variant of executeGraphQL without the branch for status 429
RECURSIVE executeGraphQL_NoThrottleBranch(_, _, _)
executeGraphQL_NoThrottleBranch(answers, retryCount, slept) ==
    LET response == answers[retryCount + 1]
        requests == retryCount + 1
    IN IF response = NetworkFailure
       THEN Ended(Thrown("TypeError", "fetch failed", "", ""), requests, slept)
       ELSE IF response.status # 200
       THEN Ended(Thrown("Error", "Shopify API error: ",
                         StatusString(response.status), response.statusText),
                  requests, slept)
       ELSE IF response.body = "malformed"
       THEN Ended(Thrown("SyntaxError", "Unexpected token", "", ""),
                  requests, slept)
       ELSE IF response.body = "errors"
       THEN Ended(Thrown("Error", "GraphQL errors: ", "errors", ""),
                  requests, slept)
       ELSE Ended([ok |-> TRUE, data |-> response.body, error |-> NoRec],
                  requests, slept)

\* a variant of executeGraphQL that also retries a response that is not ok
RECURSIVE executeGraphQL_RetriesFailures(_, _, _)
executeGraphQL_RetriesFailures(answers, retryCount, slept) ==
    LET response == answers[retryCount + 1]
        requests == retryCount + 1
        throttle == IF response.nearLimit THEN Append(slept, 500) ELSE slept
    IN IF response = NetworkFailure
       THEN Ended(Thrown("TypeError", "fetch failed", "", ""), requests, slept)
       ELSE IF response.status # 200
       THEN IF retryCount < MAX_RETRIES
            THEN executeGraphQL_RetriesFailures(answers, retryCount + 1,
                     Append(throttle, INITIAL_RETRY_DELAY * Pow2(retryCount)))
            ELSE Ended(Thrown("Error", "Rate limit exceeded, max retries reached",
                              "", ""),
                       requests, throttle)
       ELSE IF response.body = "malformed"
       THEN Ended(Thrown("SyntaxError", "Unexpected token", "", ""),
                  requests, throttle)
       ELSE IF response.body = "errors"
       THEN Ended(Thrown("Error", "GraphQL errors: ", "errors", ""),
                  requests, throttle)
       ELSE Ended([ok |-> TRUE, data |-> response.body, error |-> NoRec],
                  requests, throttle)

\* executeGraphQL(query, variables, retryCount)
RECURSIVE executeGraphQL(_, _, _)
executeGraphQL(answers, retryCount, slept) ==
    LET response == answers[retryCount + 1]
        requests == retryCount + 1
        throttle == IF response.nearLimit THEN Append(slept, 500) ELSE slept
    IN IF response = NetworkFailure
       THEN Ended(Thrown("TypeError", "fetch failed", "", ""), requests, slept)
       ELSE IF response.status = 429
       THEN IF retryCount < MAX_RETRIES
            THEN executeGraphQL(answers, retryCount + 1,
                     Append(throttle, INITIAL_RETRY_DELAY * Pow2(retryCount)))
            ELSE Ended(Thrown("Error", "Rate limit exceeded, max retries reached",
                              "", ""),
                       requests, throttle)
       ELSE IF response.status # 200
       THEN Ended(Thrown("Error", "Shopify API error: ",
                         StatusString(response.status), response.statusText),
                  requests, throttle)
       ELSE IF response.body = "malformed"
       THEN Ended(Thrown("SyntaxError", "Unexpected token", "", ""),
                  requests, throttle)
       ELSE IF response.body = "errors"
       THEN Ended(Thrown("Error", "GraphQL errors: ", "errors", ""),
                  requests, throttle)
       ELSE Ended([ok |-> TRUE, data |-> response.body, error |-> NoRec],
                  requests, throttle)

\* one call of executeGraphQL
ExecuteGraphQLCall ==
    \E throttled \in 0..MaxThrottled, nearLimit \in BOOLEAN :
        \E final \in FinalAnswers(nearLimit) :
            Returns(Call("executeGraphQL", <<throttled, nearLimit, final>>,
                         executeGraphQL(Answers(throttled, nearLimit, final),
                                        0, <<>>)))

\* scripts/reconcile.ts: source against warehouse, amounts in minor units
Abs(x) == IF x < 0 THEN 0 - x ELSE x

\* Math.abs(revenueDiff) < 1, one currency unit
RevenueEpsilon == 100

ReconciliationResult(source, sourceCount, warehouseCount, sourceRevenue, warehouseRevenue) ==
    LET countDiff == warehouseCount - sourceCount
        revenueDiff == warehouseRevenue - sourceRevenue
    IN [source |-> source, sourceCount |-> sourceCount,
        warehouseCount |-> warehouseCount, sourceRevenue |-> sourceRevenue,
        warehouseRevenue |-> warehouseRevenue, countDiff |-> countDiff,
        revenueDiff |-> revenueDiff,
        status |-> IF Abs(countDiff) = 0 /\ Abs(revenueDiff) < RevenueEpsilon
                   THEN "match" ELSE "mismatch"]

\* the result of the catch block
ReconciliationError(source) ==
    [source |-> source, sourceCount |-> 0, warehouseCount |-> 0,
     sourceRevenue |-> 0, warehouseRevenue |-> 0, countDiff |-> 0,
     revenueDiff |-> 0, status |-> "error"]

NetTotals(rows) == SumSeq([i \in DOMAIN rows |-> rows[i].netTotal])

\* reconcileShopify; failure is the request that throws, if any
reconcileShopify(failure, shopifyOrders, warehouseOrders) ==
    IF failure \in {"source", "warehouse"} THEN ReconciliationError("shopify")
    ELSE ReconciliationResult("shopify", Len(shopifyOrders), Len(warehouseOrders),
            SumSeq([i \in DOMAIN shopifyOrders |->
                       shopifyOrders[i].total - shopifyOrders[i].refunded]),
            NetTotals(warehouseOrders))

\* lib/square.ts getLocations: a failed request is logged and answered with []
getLocations(failure, locations) ==
    IF failure = "locations" THEN <<>> ELSE locations

\* new Map(payments.map(p => [p.orderId, ...])).get(order.id): the last
\* payment of the order, or NoRec
RECURSIVE PaymentsMapGet(_, _)
PaymentsMapGet(payments, orderId) ==
    IF payments = <<>> THEN NoRec
    ELSE IF payments[Len(payments)].orderId = orderId THEN payments[Len(payments)]
    ELSE PaymentsMapGet(SubSeq(payments, 1, Len(payments) - 1), orderId)

SquareNet(order, payments) ==
    LET paymentData == PaymentsMapGet(payments, order.id)
    IN IF paymentData # NoRec
       THEN order.totalMoney - AmountOrZero(paymentData.refundedMoney)
       ELSE order.totalMoney

\* reconcileSquare; every location answers with the same orders and payments
reconcileSquare(failure, locations, orders, payments, warehouseOrders) ==
    LET locs == getLocations(failure, locations)
    IN IF locs # <<>> /\ failure \in {"orders", "payments"}
       THEN ReconciliationError("square")
       ELSE IF failure = "warehouse" THEN ReconciliationError("square")
       ELSE ReconciliationResult("square",
                SumSeq([l \in DOMAIN locs |-> Len(orders)]),
                Len(warehouseOrders),
                SumSeq([l \in DOMAIN locs |->
                           SumSeq([i \in DOMAIN orders |->
                                      SquareNet(orders[i], payments)])]),
                NetTotals(warehouseOrders))

\* reconcileAnyRoad
reconcileAnyRoad(failure, bookings, warehouseEvents) ==
    IF failure \in {"source", "warehouse"} THEN ReconciliationError("anyroad")
    ELSE ReconciliationResult("anyroad", Len(bookings), Len(warehouseEvents),
            SumSeq([i \in DOMAIN bookings |->
                       AmountOrZero(bookings[i].total_price)
                       + AmountOrZero(bookings[i].add_ons_total)]),
            SumSeq([i \in DOMAIN warehouseEvents |->
                       warehouseEvents[i].revenue + warehouseEvents[i].addOnSales]))

\* what the sources and the warehouse hold for a window
ReconcileShopifyOrders ==
    {<<>>, <<[total |-> 1000, refunded |-> 0]>>,
     <<[total |-> 1000, refunded |-> 0], [total |-> 599, refunded |-> 100]>>}

ReconcileWarehouseOrders ==
    {<<>>, <<[netTotal |-> 1000]>>, <<[netTotal |-> 1099]>>, <<[netTotal |-> 1100]>>,
     <<[netTotal |-> 901]>>, <<[netTotal |-> 1000], [netTotal |-> 499]>>,
     <<[netTotal |-> 1000], [netTotal |-> 1000]>>}

ReconcileSquareOrders ==
    {<<>>, <<[id |-> 1, totalMoney |-> 1000]>>,
     <<[id |-> 1, totalMoney |-> 1000], [id |-> 2, totalMoney |-> 499]>>}

ReconcileSquarePayments ==
    {<<>>, <<[orderId |-> 1, refundedMoney |-> NoAmount]>>,
     <<[orderId |-> 1, refundedMoney |-> 100], [orderId |-> 1, refundedMoney |-> NoAmount]>>,
     <<[orderId |-> 1, refundedMoney |-> 99]>>}

ReconcileBookings ==
    {<<>>, <<[total_price |-> 900, add_ons_total |-> 100]>>,
     <<[total_price |-> 1000, add_ons_total |-> NoAmount],
       [total_price |-> NoAmount, add_ons_total |-> NoAmount]>>}

ReconcileWarehouseEvents ==
    {<<>>, <<[revenue |-> 1000, addOnSales |-> 0]>>,
     <<[revenue |-> 1000, addOnSales |-> 99]>>,
     <<[revenue |-> 900, addOnSales |-> 0]>>,
     <<[revenue |-> 1000, addOnSales |-> 0], [revenue |-> 0, addOnSales |-> 0]>>}

\* one call of reconcileShopify, reconcileSquare or reconcileAnyRoad with at
\* most one request failing, and only a request that the call makes
ReconcileCall ==
    \/ \E failure \in {"none", "source", "warehouse"},
          fetched \in ReconcileShopifyOrders, rows \in ReconcileWarehouseOrders :
         Returns(Call("reconcile", <<"shopify", failure, fetched, rows>>,
                      reconcileShopify(failure, fetched, rows)))
    \/ \E failure \in {"none", "locations", "orders", "payments", "warehouse"},
          locations \in {<<>>, <<"L1">>, <<"L1", "L2">>},
          orders \in ReconcileSquareOrders, payments \in ReconcileSquarePayments,
          rows \in ReconcileWarehouseOrders :
         /\ failure \in {"orders", "payments"} => locations # <<>>
         /\ Returns(Call("reconcile",
                         <<"square", failure,
                           [locations |-> locations, orders |-> orders,
                            payments |-> payments], rows>>,
                         reconcileSquare(failure, locations, orders, payments, rows)))
    \/ \E failure \in {"none", "source", "warehouse"},
          fetched \in ReconcileBookings, rows \in ReconcileWarehouseEvents :
         Returns(Call("reconcile", <<"anyroad", failure, fetched, rows>>,
                      reconcileAnyRoad(failure, fetched, rows)))

\* scripts/reconcile.ts checkOrphanedLineItems: the lines whose order is
\* not in FactOrder
checkOrphanedLineItems(w) ==
    Cardinality({l \in w.factOrderLine :
                    l.orderId \notin {o.id : o \in w.factOrder}})

\* GROUP BY id HAVING COUNT(*) > 1
DuplicateIds(table) == {r.id : r \in {x \in table : Cardinality(Rows(table, x.id)) > 1}}

\* checkDuplicates
checkDuplicates(w) ==
    [orders |-> Cardinality(DuplicateIds(w.factOrder)),
     events |-> Cardinality(DuplicateIds(w.factEvent))]

\* the re-pull request of one mismatch: POST /api/admin/resync
ResyncRequest(result) ==
    [method |-> "POST", source |-> result.source, date |-> "startDate"]

\* a variant of autoFixMismatches that sends every re-pull request again
autoFixMismatches_Retries(results) ==
    LET mismatched == SelectSeq(results,
                         LAMBDA r : r.status = "mismatch" /\ Abs(r.countDiff) > 0)
        once == [i \in DOMAIN mismatched |-> ResyncRequest(mismatched[i])]
    IN once \o once

\* autoFixMismatches: the requests it sends, in order
autoFixMismatches(results) ==
    LET mismatched == SelectSeq(results,
                         LAMBDA r : r.status = "mismatch" /\ Abs(r.countDiff) > 0)
    IN [i \in DOMAIN mismatched |-> ResyncRequest(mismatched[i])]

SomeResult(results, status) == \E i \in DOMAIN results : results[i].status = status

\* main: the exit code
ExitCode(results, duplicates) ==
    LET hasCriticalIssues == \/ SomeResult(results, "error")
                             \/ duplicates.orders > 0
                             \/ duplicates.events > 0
    IN IF hasCriticalIssues THEN 2
       ELSE IF SomeResult(results, "mismatch") THEN 1
       ELSE 0

\* main, from the three results on: the consistency checks, the audit row,
\* the re-pulls and the exit code; a throw of a database call ends in the
\* catch block with exit code 2
main(AUTO_FIX, results, w, dbThrows) ==
    IF dbThrows
    THEN [results |-> results, orphanedLineItems |-> 0,
          duplicates |-> [orders |-> 0, events |-> 0], audit |-> NoRec,
          requests |-> <<>>, fatal |-> TRUE, exit |-> 2]
    ELSE LET orphanedCount == checkOrphanedLineItems(w)
             duplicates == checkDuplicates(w)
             allMatch == \A i \in DOMAIN results : results[i].status = "match"
         IN [results |-> results, orphanedLineItems |-> orphanedCount,
             duplicates |-> duplicates,
             audit |-> AuditRow("system", <<"reconciliation", "run">>,
                                IF allMatch THEN "success" ELSE "warning",
                                NoId, NULL),
             requests |-> IF AUTO_FIX /\ SomeResult(results, "mismatch")
                          THEN autoFixMismatches(results) ELSE <<>>,
             fatal |-> FALSE,
             exit |-> ExitCode(results, duplicates)]

\* what a window holds at a source and in the warehouse: the same; an order
\* or booking the warehouse lacks; the same records with a revenue that
\* differs by the epsilon; a source whose request fails
ReconcileCases == {"same", "missing", "revenue", "failed"}

ShopifyCase(c) ==
    CASE c = "same" -> reconcileShopify("none", <<[total |-> 1000, refunded |-> 0]>>,
                                        <<[netTotal |-> 1000]>>)
      [] c = "missing" -> reconcileShopify("none",
                              <<[total |-> 1000, refunded |-> 0],
                                [total |-> 599, refunded |-> 100]>>,
                              <<[netTotal |-> 1000]>>)
      [] c = "revenue" -> reconcileShopify("none", <<[total |-> 1000, refunded |-> 0]>>,
                                           <<[netTotal |-> 1100]>>)
      [] OTHER -> reconcileShopify("source", <<>>, <<>>)

SquareCase(c) ==
    CASE c = "same" -> reconcileSquare("none", <<"L1">>,
                           <<[id |-> 1, totalMoney |-> 1000]>>, <<>>,
                           <<[netTotal |-> 1000]>>)
      [] c = "missing" -> reconcileSquare("none", <<"L1">>,
                              <<[id |-> 1, totalMoney |-> 1000],
                                [id |-> 2, totalMoney |-> 499]>>, <<>>,
                              <<[netTotal |-> 1000]>>)
      [] c = "revenue" -> reconcileSquare("none", <<"L1">>,
                              <<[id |-> 1, totalMoney |-> 1000]>>, <<>>,
                              <<[netTotal |-> 1100]>>)
      [] OTHER -> reconcileSquare("orders", <<"L1">>, <<>>, <<>>, <<>>)

AnyRoadCase(c) ==
    CASE c = "same" -> reconcileAnyRoad("none",
                           <<[total_price |-> 900, add_ons_total |-> 100]>>,
                           <<[revenue |-> 900, addOnSales |-> 100]>>)
      [] c = "missing" -> reconcileAnyRoad("none",
                              <<[total_price |-> 900, add_ons_total |-> 100]>>, <<>>)
      [] c = "revenue" -> reconcileAnyRoad("none",
                              <<[total_price |-> 900, add_ons_total |-> 100]>>,
                              <<[revenue |-> 900, addOnSales |-> 0]>>)
      [] OTHER -> reconcileAnyRoad("source", <<>>, <<>>)

\* the tables the consistency checks read: an order with its lines and an
\* event, with or without lines of an order that has no row, a second row
\* under the order's id, a second row under the event's id
CheckedWarehouse(orphan, dupOrder, dupEvent) ==
    LET n == normalizeOrder(ShopifyGraphqlOrder(1, 1))
        other == normalizeOrder(ShopifyGraphqlOrder(MaxOrderId, 1))
        row == OrderRow(n.externalId, OrderColumns(n))
        event == EventRow(normalizeBooking(AnyRoadBooking(1, 1)))
    IN WH({row} \cup (IF dupOrder THEN {[row EXCEPT !.netTotal = 0]} ELSE {}),
          LineRows(n.externalId, n.lineItems)
            \cup (IF orphan THEN LineRows(other.externalId, other.lineItems) ELSE {}),
          {event} \cup (IF dupEvent THEN {[event EXCEPT !.revenue = 0]} ELSE {}),
          {})

\* one run of the reconciliation script
ReconcileMainCall ==
    \E AUTO_FIX \in BOOLEAN, dbThrows \in BOOLEAN,
       sh \in ReconcileCases, sq \in ReconcileCases, ar \in ReconcileCases,
       orphan \in BOOLEAN, dupOrder \in BOOLEAN, dupEvent \in BOOLEAN :
        LET w == CheckedWarehouse(orphan, dupOrder, dupEvent)
            out == main(AUTO_FIX, <<ShopifyCase(sh), SquareCase(sq), AnyRoadCase(ar)>>,
                        w, dbThrows)
        IN /\ call = NoCall
           /\ call' = Call("main", <<AUTO_FIX, dbThrows, w>>, out)
           /\ ingestAudit' = IF out.audit = NoRec THEN ingestAudit
                             ELSE Append(ingestAudit, out.audit)
           /\ UNCHANGED <<warehouse, req, lastOp, prevOp, ops, bf, tasks>>

\* reconcileShopify run against the shop and the warehouse as they are:
\* fetchShopifyOrders(startDate, endDate) is one call of
\* fetchOrdersByDateRange without a cursor, and findMany reads the Shopify
\* rows created in the window
RECURSIVE RowsAsSeq(_)
RowsAsSeq(rows) ==
    IF rows = {} THEN <<>>
    ELSE LET r == CHOOSE x \in rows : TRUE
         IN <<r>> \o RowsAsSeq(rows \ {r})

ShopifyRowsCreatedIn(table, startDate, endDate) ==
    {r \in table : /\ r.channelId = "shopify"
                   /\ OrderDay(r.id[3]) >= startDate
                   /\ OrderDay(r.id[3]) <= endDate}

reconcileShopifyWindow(table, startDate, endDate) ==
    LET got == fetchOrdersByDateRange(startDate, endDate, 0)
        shopifyOrders == [i \in DOMAIN got.orders |->
                             [total |-> got.orders[i].totalPrice,
                              refunded |-> got.orders[i].totalRefunded]]
    IN reconcileShopify("none", shopifyOrders,
                        RowsAsSeq(ShopifyRowsCreatedIn(table, startDate, endDate)))

\* the date windows a backfill of the lookback range goes through
BackfillWindows ==
    {<<0, DATE_WINDOW_DAYS>>, <<DATE_WINDOW_DAYS + 1, Today>>}

\* one run of reconcileShopify for a window, between two backfill runs; the
\* operation that ended before it is kept with the call
ReconcileShopifyWindow ==
    /\ bf = NoRec /\ req = NoReq
    /\ call = NoCall
    /\ \E window \in BackfillWindows :
         call' = Call("reconcileShopify", <<window[1], window[2], lastOp>>,
                      reconcileShopifyWindow(factOrder, window[1], window[2]))
    /\ UNCHANGED <<warehouse, ingestAudit, req, lastOp, prevOp, ops, bf, tasks>>

----------------------------------------------------------------------------
(* Specifications *)

Start(budget) ==
    /\ factOrder = {}
    /\ factOrderLine = {}
    /\ factEvent = {}
    /\ bridgeCustomerIdentity = {}
    /\ ingestAudit = <<>>
    /\ req = NoReq
    /\ lastOp = NoOp
    /\ prevOp = NoOp
    /\ ops = budget
    /\ bf = NoRec
    /\ tasks = <<>>
    /\ call = NoCall

\* an empty warehouse; ops is the number of requests and runs still to come
Init == Start(MaxOpsAll)

InitDeep == Start(MaxOps)

\* the Shopify webhook endpoint alone
NextShopify ==
    \/ ShopifyPOST
    \/ ShopifyHandle

SpecShopify == InitDeep /\ [][NextShopify]_vars

NextSquare ==
    \/ SquarePOST
    \/ SquareHandle

SpecSquare == InitDeep /\ [][NextSquare]_vars

NextAnyRoad ==
    \/ AnyRoadPOST
    \/ AnyRoadHandle

SpecAnyRoad == InitDeep /\ [][NextAnyRoad]_vars

\* the three webhook endpoints
NextWebhooks ==
    \/ ShopifyPOST
    \/ ShopifyHandle
    \/ SquarePOST
    \/ SquareHandle
    \/ AnyRoadPOST
    \/ AnyRoadHandle

SpecWebhooks == Init /\ [][NextWebhooks]_vars

\* the admin resync route
NextResync ==
    \/ ResyncPOST
    \/ ResyncGET

SpecResync == Init /\ [][NextResync]_vars

\* every operation that writes FactEvent: the AnyRoad webhooks, the AnyRoad
\* backfill and the admin resync
NextEvents ==
    \/ AnyRoadPOST
    \/ AnyRoadHandle
    \/ AnyRoadBackfill
    \/ ResyncPOST

SpecEvents == Init /\ [][NextEvents]_vars

\* the backfill scripts' upsertOrder alone
NextUpsert ==
    \/ ShopifyUpsertOrder
    \/ SquareUpsertOrder

SpecUpsert == InitDeep /\ [][NextUpsert]_vars

\* the backfill scripts
NextBackfill ==
    \/ ShopifyBackfillStart
    \/ ShopifyBackfillPage
    \/ ShopifyBackfillCheckpoint
    \/ BackfillAbort
    \/ SquareBackfill
    \/ AnyRoadBackfill

SpecBackfill == Start(MaxRuns) /\ [][NextBackfill]_vars

\* the backfill scripts and reconciliations of the Shopify windows
NextReconciled ==
    \/ NextBackfill
    \/ ReconcileShopifyWindow

SpecReconciled == Start(MaxRuns) /\ [][NextReconciled]_vars

\* the backfill scripts run one after another, the Shopify backfill against
\* a source that answers every request and in a process that is not killed:
\* the script goes on after each await
NextBackfillAnswered ==
    \/ ShopifyBackfillStart
    \/ ShopifyBackfillPageAnswered
    \/ ShopifyBackfillCheckpoint
    \/ SquareBackfill
    \/ AnyRoadBackfill

SpecBackfillAnswered ==
    /\ Start(MaxRuns)
    /\ [][NextBackfillAnswered]_vars
    /\ WF_vars(ShopifyBackfillPageAnswered)
    /\ WF_vars(ShopifyBackfillCheckpoint)

\* ingestions whose database statements interleave
NextRace ==
    \/ TaskStart
    \/ TaskIdentityStep
    \/ TaskUpsertStep
    \/ TaskDeleteStep
    \/ TaskCreateStep

SpecRace == Init /\ [][NextRace]_vars

\* calls of library functions
NextLib ==
    \/ HashPiiCall
    \/ ReconcilePaymentsCall
    \/ ExecuteGraphQLCall
    \/ ReconcileCall
    \/ ReconcileMainCall

SpecLib == Init /\ [][NextLib]_vars

\* the batch upserts of the backfill scripts
NextBatch ==
    \/ BatchUpsertCall

SpecBatch == Init /\ [][NextBatch]_vars

\* every ingestion path of the three sources
Next ==
    \/ ShopifyPOST
    \/ ShopifyHandle
    \/ SquarePOST
    \/ SquareHandle
    \/ AnyRoadPOST
    \/ AnyRoadHandle
    \/ ShopifyUpsertOrder
    \/ SquareUpsertOrder
    \/ ResyncPOST

Spec == Init /\ [][Next]_vars

----------------------------------------------------------------------------
(* Properties *)

\* a table with the write timestamp of every row blanked
WithoutWriteTime(table) == {[r EXCEPT !.updatedAt = "any"] : r \in table}

\* the last two finished operations are successful backfill upserts of the
\* same normalized order
UpsertedTwice(first, second) ==
    /\ first.kind = "upsert" /\ second.kind = "upsert"
    /\ first.ok /\ second.ok
    /\ first.input = second.input

\* C1: applying a backfill upsertOrder(o) a second time to the state the
\* first application left changes nothing but the write timestamp: the same
\* order rows with the same field values, the same line rows, the same
\* identities.
C1_UpsertTwiceIsOnce ==
    [][ (UpsertedTwice(lastOp, lastOp') /\ ops' = ops - 1) =>
          /\ Cardinality(factOrder') = Cardinality(factOrder)
          /\ WithoutWriteTime(factOrder') = WithoutWriteTime(factOrder)
          /\ factOrderLine' = factOrderLine
          /\ bridgeCustomerIdentity' = bridgeCustomerIdentity
          /\ factEvent' = factEvent ]_vars

\* an order with lines and refunds was created by one upsert and upserted
\* again
C1_Witness ==
    /\ UpsertedTwice(prevOp, lastOp)
    /\ prevOp.pre = NoRec
    /\ lastOp.input.refundsTotal > 0
    /\ Len(lastOp.input.lineItems) > 1
    /\ FindUnique(factOrder, lastOp.id).updatedAt = "now"

\* the last two finished operations are processed Shopify refunds/create
\* deliveries of one and the same payload for an order the warehouse holds
RefundDeliveredTwice ==
    /\ prevOp.source = "shopify" /\ lastOp.source = "shopify"
    /\ prevOp.kind = "refund" /\ lastOp.kind = "refund"
    /\ prevOp.ok /\ lastOp.ok
    /\ prevOp.raw = lastOp.raw
    /\ prevOp.pre # NoRec

\* C3: a Shopify refunds/create webhook delivered twice with the same
\* payload leaves refundsTotal and netTotal as the first delivery left them.
C3_DuplicateRefundCountsOnce ==
    RefundDeliveredTwice =>
        LET row == FindUnique(factOrder, lastOp.id)
        IN /\ row.refundsTotal = lastOp.pre.refundsTotal
           /\ row.netTotal = lastOp.pre.netTotal

\* the last two finished operations are an accepted order webhook that
\* created order n without refunds and an accepted refund webhook for n
OrderThenRefund ==
    /\ prevOp.source = "shopify" /\ lastOp.source = "shopify"
    /\ prevOp.kind = "order" /\ lastOp.kind = "refund"
    /\ prevOp.ok /\ lastOp.ok
    /\ prevOp.pre = NoRec
    /\ Len(prevOp.raw.refunds) = 0
    /\ lastOp.raw.order_id = prevOp.raw.id

\* C4: after an order webhook for an order n the warehouse lacked, with
\* gross total G and no refunds, and then a refund webhook for n of amount
\* R, the warehouse holds exactly one order row with the id derived from n,
\* with refundsTotal = R and netTotal = G - R.
C4_OrderThenRefund ==
    OrderThenRefund =>
        LET n == prevOp.raw.id
            G == AmountOrZero(prevOp.raw.total_price)
            R == AmountOrZero(lastOp.raw.amount)
            rows == {r \in factOrder : r.id = <<"shopify", "order", n>>}
        IN /\ Cardinality(rows) = 1
           /\ \A r \in rows : r.refundsTotal = R /\ r.netTotal = G - R

\* such a refund of a positive amount has been processed
C4_Witness ==
    /\ OrderThenRefund
    /\ AmountOrZero(lastOp.raw.amount) > 0
    /\ lastOp.status = 200

BadSignatures == {"missing", "tampered", "wrongkey"}

\* a webhook POST arrives in this step, with signature case sig
WebhookArrives(sig) ==
    /\ req = NoReq
    /\ ops' = ops - 1
    /\ \/ req' # NoReq /\ req'.sig = sig
       \/ req' = NoReq /\ lastOp'.via = "webhook" /\ lastOp'.sig = sig

C6_AuditLifecycle ==
    [][ /\ WebhookArrives("valid") =>
            /\ req' # NoReq
            /\ Len(ingestAudit') = Len(ingestAudit) + 1
            /\ ingestAudit'[req'.auditId].status = "processing"
        /\ (req # NoReq /\ req' = NoReq) =>
            /\ ingestAudit[req.auditId].status = "processing"
            /\ ingestAudit'[req.auditId].status \in {"success", "failed"}
            /\ \A i \in 1..Len(ingestAudit) :
                  i # req.auditId => ingestAudit'[i] = ingestAudit[i]
        /\ req = NoReq =>
            \A i \in 1..Len(ingestAudit) : ingestAudit[i].status # "processing"
      ]_vars

\* the line rows a normalized order stands for
ExpectedLines(order) ==
    {[id |-> order.lineItems[i].externalId, orderId |-> order.externalId,
      sku |-> order.lineItems[i].sku,
      productTitle |-> order.lineItems[i].productTitle,
      category |-> order.lineItems[i].category,
      qty |-> order.lineItems[i].qty,
      lineTotal |-> order.lineItems[i].lineTotal] : i \in 1..Len(order.lineItems)}

LinesOf(orderId) == {l \in factOrderLine : l.orderId = orderId}

\* the normalized orders whose ingestion the last operation completed
Ingested(op) ==
    IF op.kind = "resync" THEN SeqToSet(op.input.orders)
    ELSE IF op.kind \in {"order", "upsert"} /\ op.ok /\ op.input # NoRec
    THEN {op.input}
    ELSE {}

\* C10: after a completed ingestion of an order (order webhook, backfill
\* upsert, resync) the line rows of that order are exactly the lines of the
\* version just ingested.
C10_LinesAreLastVersion ==
    \A order \in Ingested(lastOp) : LinesOf(order.externalId) = ExpectedLines(order)

\* an order was ingested again in a version with other lines
C10_Witness ==
    /\ lastOp.kind \in {"order", "upsert"}
    /\ prevOp.kind \in {"order", "upsert"}
    /\ Ingested(lastOp) # {} /\ Ingested(prevOp) # {}
    /\ lastOp.id = prevOp.id
    /\ ExpectedLines(lastOp.input) # ExpectedLines(prevOp.input)
    /\ ExpectedLines(prevOp.input) # {}

\* the warehouse one run of the Shopify backfill leaves when nothing
\* interrupts it and nothing fails, started on an empty warehouse: every
\* order of the range upserted in the order of the pages
UninterruptedRun ==
    LET all == Ascending({n \in SourceIds : OrderDay(n) >= 0 /\ OrderDay(n) <= Today})
    IN batchUpsertOrders(WH({}, {}, {}, {}),
           normalizeOrders([i \in 1..Len(all) |-> ShopifyGraphqlOrder(all[i], 1)]),
           [i \in 1..Len(all) |-> "none"], 0).wh

\* a first Shopify backfill run on an empty warehouse was killed right after
\* the checkpoint of the second page of a window with a third page, and the
\* next run completed; no fetch and no write failed in either
ResumedAfterSecondPage ==
    /\ prevOp.kind = "run" /\ prevOp.source = "shopify"
    /\ prevOp.input.how = "aborted"
    /\ prevOp.input.pc = "fetch" /\ prevOp.input.pages = 2
    /\ prevOp.input.log.resumedFrom = NoRec
    /\ prevOp.input.log.startedEmpty
    /\ prevOp.input.log.clean
    /\ lastOp.kind = "run" /\ lastOp.source = "shopify"
    /\ lastOp.input.how = "complete"
    /\ lastOp.input.log.clean

\* C7: after a Shopify backfill of a three-page window was aborted right
\* after the checkpoint of page 2, the next run fetches and processes only
\* page 3 onward, and the final warehouse equals the one of a single
\* uninterrupted run.
C7_ResumeFromCheckpoint ==
    ResumedAfterSecondPage =>
        /\ lastOp.input.log.fetched =
              {n \in SourceIds : n > lastOp.input.log.resumedFrom.cursor}
        /\ WithoutWriteTime(factOrder) = WithoutWriteTime(UninterruptedRun.factOrder)
        /\ factOrderLine = UninterruptedRun.factOrderLine
        /\ bridgeCustomerIdentity = UninterruptedRun.bridgeCustomerIdentity

\* the source records a checkpoint row vouches for: the orders of its
\* window up to its cursor (Shopify), the orders of its location (Square),
\* the bookings of the range (AnyRoad)
CheckpointedPresent(row) ==
    CASE row.source = "shopify" ->
            \A n \in SourceIds :
               (OrderDay(n) >= row.subject.startDate
                /\ OrderDay(n) <= row.subject.endDate
                /\ n <= row.subject.cursor)
               => Rows(factOrder, <<"shopify", "order", n>>) # {}
      [] row.source = "square" ->
            \A i \in 1..Len(SquareOrdersAt(row.subject.locationId)) :
               Rows(factOrder, <<"square", "order",
                       SquareOrdersAt(row.subject.locationId)[i].order.id>>) # {}
      [] OTHER ->
            \A i \in 1..Len(AnyRoadSourceBookings) :
               Rows(factEvent, <<"anyroad", "booking",
                       AnyRoadSourceBookings[i].id>>) # {}

\* C8: a backfill checkpoint is written only after every record of its page
\* is persisted, so no record of a checkpointed page is missing from the
\* warehouse, whatever crash or resume follows.
C8_CheckpointAfterPersist ==
    \A i \in 1..Len(ingestAudit) :
       (ingestAudit[i].type = <<"backfill", "checkpoint">>)
       => CheckpointedPresent(ingestAudit[i])

\* C9: in the backfill of every source, a run in which the processing of a
\* window threw ends as failed with a 'failed' audit row as its last
\* record; it does not go on to record a successful backfill_complete.
C9_WindowErrorIsFatal ==
    (bf = NoRec /\ lastOp.kind = "run" /\ lastOp.input.how # "aborted"
     /\ lastOp.input.log.windowFailed)
    => /\ lastOp.input.how = "failed"
       /\ ingestAudit # <<>>
       /\ ingestAudit[Len(ingestAudit)].source = lastOp.source
       /\ ingestAudit[Len(ingestAudit)].type = <<"backfill", "error">>
       /\ ingestAudit[Len(ingestAudit)].status = "failed"

----------------------------------------------------------------------------
(* Concurrency *)

Finished(t) == t.pc \in {"done", "failed"}

\* the order row and line set the ingestion t alone leaves for its order
AloneState(t) ==
    [rows |-> WithoutWriteTime({t.created}), lines |-> LineRows(t.id, t.lineItems)]

OrderState(id) ==
    [rows |-> WithoutWriteTime(Rows(factOrder, id)), lines |-> LinesOf(id)]

SameOrderRace(i, j) ==
    /\ i < j
    /\ tasks[i].kind = "order" /\ tasks[j].kind = "order"
    /\ tasks[i].id = tasks[j].id
    /\ Finished(tasks[i]) /\ Finished(tasks[j])
    /\ \A k \in DOMAIN tasks : k \notin {i, j} => tasks[k].id # tasks[i].id

\* C11: when two concurrent ingestions of the same order externalId have both
\* ended, neither has failed and the order row with its line set is what one
\* of the two alone would have produced (last write wins, no mixture)
C11_RaceIsLastWriteWins ==
    \A i, j \in DOMAIN tasks :
        SameOrderRace(i, j) =>
            /\ tasks[i].pc = "done" /\ tasks[j].pc = "done"
            /\ OrderState(tasks[i].id) \in {AloneState(tasks[i]), AloneState(tasks[j])}

ChannelFields == {"shopifyCustomerId", "squareCustomerId", "anyroadGuestId"}

\* the native ids the ingestions have written for a hash in a channel column
Written(hash, field) ==
    {tasks[i].value : i \in {k \in DOMAIN tasks :
        /\ tasks[k].hash = hash /\ tasks[k].field = field
        /\ tasks[k].pc # "identity" /\ tasks[k].value # NoId}}

BridgeHoldsWritten ==
    \A r \in bridgeCustomerIdentity : \A f \in ChannelFields :
        IF Written(r.id, f) = {} THEN r[f] = NoId ELSE r[f] \in Written(r.id, f)

\* the statement an ingestion executes leaves every other channel's column
\* of every bridge row as it was and sets no column to null
OwnColumnOnly ==
    \A i \in DOMAIN tasks :
        tasks'[i] # tasks[i] =>
            \A r \in bridgeCustomerIdentity :
                \E r2 \in bridgeCustomerIdentity' :
                    /\ r2.id = r.id
                    /\ \A f \in ChannelFields :
                          /\ f # tasks[i].field => r2[f] = r[f]
                          /\ r[f] # NoId => r2[f] # NoId

\* C12: identity upserts on one customerHash from different channels, in any
\* interleaving: the bridge row holds each channel's native id as that
\* channel wrote it; an upsert changes its own channel's column only and
\* never replaces a set column with null
C12_ChannelsCommute == []BridgeHoldsWritten /\ [][OwnColumnOnly]_vars

\* two channels have written their native ids into one bridge row while both
\* ingestions were running
C12_Witness ==
    \E r \in bridgeCustomerIdentity :
        /\ r.shopifyCustomerId # NoId /\ r.anyroadGuestId # NoId
        /\ Len(tasks) = 2
        /\ tasks[1].source # tasks[2].source
        /\ tasks[1].hash = r.id /\ tasks[2].hash = r.id
        /\ ~Finished(tasks[1]) /\ ~Finished(tasks[2])

----------------------------------------------------------------------------
(* Identity *)

\* a SHA-256 digest, as opposed to the string it was made from
IsDigest(h) == h # NoId /\ Len(h) = 2 /\ h[1] = "sha256"

\* `shopify_customer_7`, `anyroad_guest_7`: a channel's own numbering
IsNativeId(v) == Len(v) = 3 /\ v[2] \in {"customer", "guest"} /\ v[3] \in Nat

\* C13: no bridge row holds an email or a phone in cleartext: its columns
\* are the customerHash, which is a digest, and the channels' native ids,
\* each null or opaque
C13_NoCleartextInBridge ==
    \A r \in bridgeCustomerIdentity :
        /\ DOMAIN r = {"id"} \cup ChannelFields
        /\ IsDigest(r.id)
        /\ \A f \in ChannelFields : r[f] = NoId \/ IsNativeId(r[f])

\* an AnyRoad booking whose normalized identity carries the guest's email
\* has been ingested and its bridge row exists
C13_Witness ==
    /\ lastOp.source = "anyroad" /\ lastOp.kind = "booking" /\ lastOp.ok
    /\ lastOp.input.customerIdentity # NoRec
    /\ lastOp.input.customerIdentity.email \in PiiStrings
    /\ \E r \in bridgeCustomerIdentity :
          r.id = lastOp.input.customerHash /\ r.anyroadGuestId # NoId

HashOf(fn, value) ==
    IF fn = "hashPii" THEN hashPii(value) ELSE securityHashPii(value)

\* C14: hashPii ignores letter case and surrounding whitespace: every input
\* equal to the hashed one after lowercasing and trimming has the same hash;
\* null hashes to null
C14_HashIgnoresCaseAndSpace ==
    call.fn \in {"hashPii", "securityHashPii"} =>
        IF call.args[1] = NULL THEN call.result = NoId
        ELSE \A other \in PiiStrings :
                LowerTrim(other) = LowerTrim(call.args[1]) =>
                    HashOf(call.fn, other) = call.result

----------------------------------------------------------------------------
(* Batches *)

BatchFns == {"batchUpsertOrders", "squareBatchUpsertOrders", "batchUpsertEvents"}

\* the record is in the warehouse as its upsert writes it
Persisted(fn, record) ==
    IF fn = "batchUpsertEvents"
    THEN Rows(factEvent, record.externalId) = {EventRow(record)}
    ELSE /\ WithoutWriteTime(Rows(factOrder, record.externalId))
              = WithoutWriteTime({OrderRow(record.externalId, OrderColumns(record))})
         /\ LinesOf(record.externalId)
              = LineRows(record.externalId, record.lineItems)

\* C15: in a batch upsert the failure of one record keeps no other record
\* from being upserted, and the count returned is the number of records
\* whose upsert succeeded
C15_BatchFailuresAreIsolated ==
    call.fn \in BatchFns =>
        LET batch == call.args[1]
            faults == call.args[2]
            succeeded == {i \in DOMAIN batch : faults[i] = "none"}
        IN /\ \A i \in succeeded : Persisted(call.fn, batch[i])
           /\ call.result = Cardinality(succeeded)

\* a batch whose first record failed and whose last record was upserted
C15_Witness ==
    /\ call.fn \in BatchFns
    /\ call.args[2][1] # "none"
    /\ call.args[2][Len(call.args[1])] = "none"
    /\ Persisted(call.fn, call.args[1][Len(call.args[1])])
    /\ call.result = Len(call.args[1]) - 1

----------------------------------------------------------------------------
(* Payments joined to orders *)

\* the positions of the payments of order o, and of its COMPLETED payments
OfOrder(payments, o) ==
    {k \in DOMAIN payments : payments[k].orderId # NoAmount /\ payments[k].orderId = o}

CompletedOf(payments, o) ==
    {k \in OfOrder(payments, o) : payments[k].status = "COMPLETED"}

RECURSIVE Total(_, _, _)
Total(payments, ks, field) ==
    IF ks = {} THEN 0
    ELSE LET k == CHOOSE x \in ks : TRUE
         IN (IF field = "processingFee" THEN SumSeq(payments[k].processingFee)
             ELSE IF payments[k][field] = NoAmount THEN 0 ELSE payments[k][field])
            + Total(payments, ks \ {k}, field)

\* C16: reconcilePaymentsToOrders groups the payments by order id; every
\* payment of an order is in the order's list, only the COMPLETED ones add
\* to totalPaid, totalFees and totalRefunded, and a payment without an
\* order id is in no list
C16_OnlyCompletedPaymentsCount ==
    call.fn = "reconcilePaymentsToOrders" =>
        LET payments == call.args[1]
        IN /\ \A o \in NativeIds :
                LET entry == call.result[o]
                    done == CompletedOf(payments, o)
                IN IF OfOrder(payments, o) = {} THEN entry = NoRec
                   ELSE /\ entry # NoRec
                        /\ Len(entry.payments) = Cardinality(OfOrder(payments, o))
                        /\ \A k \in OfOrder(payments, o) :
                              \E i \in DOMAIN entry.payments :
                                  entry.payments[i] = payments[k]
                        /\ entry.totalPaid = Total(payments, done, "amountMoney")
                        /\ entry.totalFees = Total(payments, done, "processingFee")
                        /\ entry.totalRefunded = Total(payments, done, "refundedMoney")
           /\ \A k \in DOMAIN payments :
                payments[k].orderId = NoAmount =>
                    \A o \in NativeIds :
                        call.result[o] # NoRec =>
                            \A i \in DOMAIN call.result[o].payments :
                                call.result[o].payments[i].orderId # NoAmount

\* an order with a COMPLETED payment and one in another state, both with
\* fees and a refund: both are listed, one is counted
C16_Witness ==
    /\ call.fn = "reconcilePaymentsToOrders"
    /\ \E o \in NativeIds :
          /\ Cardinality(OfOrder(call.args[1], o)) = 2
          /\ Cardinality(CompletedOf(call.args[1], o)) = 1
          /\ \A k \in OfOrder(call.args[1], o) : call.args[1][k].processingFee # <<>>
          /\ Len(call.result[o].payments) = 2
          /\ call.result[o].totalPaid = MaxAmount - 1
          /\ call.result[o].totalFees = 2
          /\ call.result[o].totalRefunded = 1

----------------------------------------------------------------------------
(* The raw payload of an event *)

RawAnnotations == {"cancelled", "completed"}

\* every annotation the row has before the step is on the row after it
KeepsAnnotations ==
    \A before \in factEvent : \A after \in factEvent' :
        after.id = before.id =>
            \A a \in RawAnnotations : before.rawJson[a] => after.rawJson[a]

\* C17: over any sequence of AnyRoad webhooks for a booking, an annotation
\* once written into the event's raw payload (cancelled, completed) is never
\* dropped by a later update
C17_RawAnnotationsAreKept == [][KeepsAnnotations]_vars

----------------------------------------------------------------------------
(* Event rows are kept *)

EventIds(events) == {e.id : e \in events}

\* the step is the processing of a booking.cancelled webhook for an event
\* that exists
CancelsExisting ==
    /\ req # NoReq /\ req' = NoReq
    /\ lastOp'.kind = "cancel" /\ lastOp'.ok
    /\ lastOp'.pre # NoRec

EventRowsStay ==
    /\ EventIds(factEvent) \subseteq EventIds(factEvent')
    /\ CancelsExisting =>
          \E e \in factEvent' :
              e.id = lastOp'.id /\ e.revenue = 0 /\ e.addOnSales = 0

\* C18: no webhook, backfill or resync operation deletes an Event row: the
\* set of event ids only grows, and after a booking.cancelled webhook for
\* an existing event the row is still there, with revenue 0 and addOnSales 0
C18_EventRowsAreNeverDeleted == [][EventRowsStay]_vars

\* a cancellation was processed for an event that had revenue and add-ons
C18_Witness ==
    /\ lastOp.kind = "cancel" /\ lastOp.ok
    /\ lastOp.pre # NoRec
    /\ lastOp.pre.revenue > 0 /\ lastOp.pre.addOnSales > 0
    /\ \E e \in factEvent :
          e.id = lastOp.id /\ e.revenue = 0 /\ e.addOnSales = 0
                           /\ e.rawJson.cancelled

----------------------------------------------------------------------------
(* Throttling *)

RateLimitExceeded ==
    [name |-> "Error",
     message |-> <<"Rate limit exceeded, max retries reached", "", "">>]

\* the delays slept between the throttled requests
Backoff(slept) == SelectSeq(slept, LAMBDA d : d # 500)

----------------------------------------------------------------------------
(* Reconciliation status *)

\* C20: reconcile returns 'match' exactly when warehouseCount - sourceCount
\* is 0 and the absolute revenue difference is below the epsilon, 'mismatch'
\* in every other case in which both sides were read, and 'error' (never
\* 'match' or 'mismatch') when the source fetch or the warehouse query fails
C20_ReconcileStatus ==
    call.fn = "reconcile" =>
        LET failure == call.args[2]
            out == call.result
        IN IF failure # "none" THEN out.status = "error"
           ELSE /\ out.status \in {"match", "mismatch"}
                /\ out.status = "match" <=>
                      /\ out.warehouseCount - out.sourceCount = 0
                      /\ Abs(out.warehouseRevenue - out.sourceRevenue) < RevenueEpsilon

\* apart from the Square locations request, the status is as stated
C20_StatusButForLocations ==
    (call.fn = "reconcile" /\ call.args[2] # "locations") => C20_ReconcileStatus

----------------------------------------------------------------------------
(* Reconciliation detects a missing order *)

ShopifyNet(order) == order.total - order.refunded

\* the warehouse rows of every fetched order but the k-th
AllButOne(fetched, k) ==
    [i \in 1..(Len(fetched) - 1) |->
        [netTotal |-> ShopifyNet(fetched[IF i < k THEN i ELSE i + 1])]]

\* C21: when the warehouse holds all but exactly one of the orders the
\* source reports, reconcile returns status mismatch, countDiff -1 and
\* revenueDiff equal to the missing order's net amount
C21_MissingOrderIsDetected ==
    (call.fn = "reconcile" /\ call.args[1] = "shopify" /\ call.args[2] = "none") =>
        \A k \in DOMAIN call.args[3] :
            call.args[4] = AllButOne(call.args[3], k) =>
                /\ call.result.status = "mismatch"
                /\ call.result.countDiff = 0 - 1
                /\ call.result.revenueDiff = ShopifyNet(call.args[3][k])

\* what the code returns: the difference is warehouse minus source
C21_RevenueDiffIsNegated ==
    (call.fn = "reconcile" /\ call.args[1] = "shopify" /\ call.args[2] = "none") =>
        \A k \in DOMAIN call.args[3] :
            call.args[4] = AllButOne(call.args[3], k) =>
                /\ call.result.status = "mismatch"
                /\ call.result.countDiff = 0 - 1
                /\ call.result.revenueDiff = 0 - ShopifyNet(call.args[3][k])

----------------------------------------------------------------------------
(* The reconciliation run *)

Mismatches(results) == SelectSeq(results, LAMBDA r : r.status = "mismatch")

\* C22: with auto-fix enabled, every result whose status is mismatch,
\* whether the count differs or only the revenue, triggers a re-ingestion
\* request for that source and date
C22_EveryMismatchIsRepulled ==
    (call.fn = "main" /\ call.args[1] /\ ~call.result.fatal) =>
        \A i \in DOMAIN call.result.results :
            call.result.results[i].status = "mismatch" =>
                \E k \in DOMAIN call.result.requests :
                    call.result.requests[k] = ResyncRequest(call.result.results[i])

\* what the code does: only a mismatch of the counts is re-pulled
C22_CountMismatchIsRepulled ==
    (call.fn = "main" /\ call.args[1] /\ ~call.result.fatal) =>
        \A i \in DOMAIN call.result.results :
            LET r == call.result.results[i]
            IN (r.status = "mismatch" /\ r.countDiff # 0) <=>
                   \E k \in DOMAIN call.result.requests :
                       call.result.requests[k] = ResyncRequest(r)

\* C23: when the consistency checks find an orphaned order line or a
\* duplicate order or event id, the run is reported as critical and ends
\* with a non-zero exit code, whatever the results of the sources are
C23_ViolationsAreCritical ==
    call.fn = "main" =>
        LET w == call.args[3]
        IN (\/ checkOrphanedLineItems(w) > 0
            \/ DuplicateIds(w.factOrder) # {}
            \/ DuplicateIds(w.factEvent) # {}) => call.result.exit = 2

\* what the code does: duplicates are critical, orphaned lines are printed
C23_DuplicatesAreCritical ==
    call.fn = "main" =>
        LET w == call.args[3]
        IN (DuplicateIds(w.factOrder) # {} \/ DuplicateIds(w.factEvent) # {})
               => call.result.exit = 2

----------------------------------------------------------------------------
(* The admin resync route is authenticated *)

\* the request's x-webhook-secret header is not the configured secret, or
\* no secret is configured
Unauthenticated(request) ==
    \/ request.secret \in {NULL, ""}
    \/ request.authHeader # request.secret

\* the step answers a request to the resync route
AnswersResync == ops' < ops /\ lastOp'.via = "resync"

RejectsUnauthenticated ==
    (AnswersResync /\ Unauthenticated(lastOp'.raw)) =>
        /\ lastOp'.status = 401
        /\ lastOp'.input.orders = <<>>
        /\ warehouse' = warehouse
        /\ ingestAudit' = ingestAudit

----------------------------------------------------------------------------
(* The audit row of a webhook follows its handler *)

\* the step ends the request whose handler was awaited
HandlerEnds == req # NoReq /\ req' = NoReq

AuditFollowsHandler ==
    HandlerEnds =>
        LET row == ingestAudit'[req.auditId]
        IN /\ lastOp'.via = "webhook" /\ lastOp'.source = req.source
           /\ lastOp'.ok =>
                 row.status = "success" /\ row.error = NULL /\ lastOp'.status = 200
           /\ ~lastOp'.ok =>
                 row.status = "failed" /\ row.error = "message" /\ lastOp'.status = 500
           /\ \A i \in DOMAIN ingestAudit :
                 i # req.auditId => ingestAudit'[i] = ingestAudit[i]

----------------------------------------------------------------------------
(* Square and AnyRoad backfills and their checkpoints *)

\* the last two operations are backfill runs of one source, Square or
\* AnyRoad, and the earlier one completed and saved its checkpoints
RerunAfterCheckpoint ==
    /\ prevOp.kind = "run" /\ lastOp.kind = "run"
    /\ lastOp.source \in {"square", "anyroad"}
    /\ prevOp.source = lastOp.source
    /\ prevOp.input.how = "complete" /\ prevOp.input.log.clean
    /\ \E i \in DOMAIN ingestAudit : IsCheckpoint(ingestAudit[i], lastOp.source)

\* C26: a Square or AnyRoad backfill invoked after an earlier invocation
\* saved a checkpoint for the source resumes from the latest checkpoint of
\* that source, not from the beginning of the requested range
C26_RerunResumesFromCheckpoint ==
    RerunAfterCheckpoint => lastOp.input.log.resumedFrom # NoRec

\* what the code does: the checkpoints of these two scripts are written and
\* never read
C26_RerunStartsOver ==
    (lastOp.kind = "run" /\ lastOp.source \in {"square", "anyroad"}) =>
        lastOp.input.log.resumedFrom = NoRec

----------------------------------------------------------------------------
(* The resume cursor of the Shopify backfill *)

\* the run is about to fetch the first page of a window, after a cursor
FirstFetchAfterCursor ==
    /\ bf # NoRec
    /\ bf.source = "shopify" /\ bf.pc = "fetch"
    /\ bf.pages = 0
    /\ bf.cursor # 0

\* C27: in backfillShopify the resume cursor read from a checkpoint is only
\* used to fetch pages of the window (startDate, endDate) recorded in that
\* checkpoint; every other window of the run starts from its first page
C27_CursorStaysInItsWindow ==
    FirstFetchAfterCursor =>
        /\ bf.log.resumedFrom # NoRec
        /\ bf.cursor = bf.log.resumedFrom.cursor
        /\ bf.currentStart = bf.log.resumedFrom.startDate
        /\ bf.actualEnd = bf.log.resumedFrom.endDate

\* what the code does: the cursor of the checkpoint opens every window of
\* the resumed run, and the first of them begins where the checkpointed
\* window ended
C27_CursorOpensLaterWindows ==
    FirstFetchAfterCursor =>
        /\ bf.log.resumedFrom # NoRec
        /\ bf.cursor = bf.log.resumedFrom.cursor
        /\ bf.currentStart >= bf.log.resumedFrom.endDate

----------------------------------------------------------------------------
(* upsertOrder as one unit *)

\* the step is a call of upsertOrder that threw
UpsertThrows == ops' < ops /\ lastOp'.kind = "upsert" /\ ~lastOp'.ok

\* the order row and the lines of the order are as before the step
OrderUntouched(id) ==
    /\ Rows(factOrder', id) = Rows(factOrder, id)
    /\ {l \in factOrderLine' : l.orderId = id} = LinesOf(id)

\* the lines of the order are the old ones or the new ones
LinesOldOrNew(id, order) ==
    \/ {l \in factOrderLine' : l.orderId = id} = LinesOf(id)
    \/ {l \in factOrderLine' : l.orderId = id} = LineRows(id, order.lineItems)

\* C28: upsertOrder is a single logical unit: when one of its steps fails
\* the warehouse keeps the order row and the lines it had before the call;
\* an order is never left with its old lines deleted and the new ones not
\* inserted
C28_UpsertIsOneUnit ==
    [][UpsertThrows =>
          /\ OrderUntouched(lastOp'.id)
          /\ LinesOldOrNew(lastOp'.id, lastOp'.input)]_vars

----------------------------------------------------------------------------
(* Square payments joined onto an order *)

\* the last two finished operations are processed deliveries of one and the
\* same Square payment webhook for an order the warehouse holds
PaymentDeliveredTwice ==
    /\ prevOp.source = "square" /\ lastOp.source = "square"
    /\ prevOp.kind = "payment" /\ lastOp.kind = "payment"
    /\ prevOp.ok /\ lastOp.ok
    /\ prevOp.raw = lastOp.raw
    /\ prevOp.id = lastOp.id /\ lastOp.id # NoId
    /\ lastOp.pre # NoRec
    /\ FindUnique(factOrder, lastOp.id) # NoRec

\* C29: processing the same payment.created / payment.updated webhook for
\* an order two or more times leaves the order's refundsTotal, netTotal and
\* tenders as a single processing leaves them
C29_PaymentIsRecomputed ==
    PaymentDeliveredTwice =>
        LET row == FindUnique(factOrder, lastOp.id)
        IN /\ row.refundsTotal = lastOp.pre.refundsTotal
           /\ row.netTotal = lastOp.pre.netTotal
           /\ row.tendersJson = lastOp.pre.tendersJson

\* what the code does: the tenders are replaced by payment id, the refunded
\* amount is added to the stored refundsTotal at every delivery
C29_RefundIsAddedAgain ==
    PaymentDeliveredTwice =>
        LET row == FindUnique(factOrder, lastOp.id)
            refunded == IF lastOp.raw.payment.refunded_money = NoAmount THEN 0
                        ELSE lastOp.raw.payment.refunded_money
        IN /\ row.refundsTotal = lastOp.pre.refundsTotal + refunded
           /\ row.netTotal = row.grossTotal - row.refundsTotal
           /\ row.tendersJson = lastOp.pre.tendersJson

----------------------------------------------------------------------------
(* A Shopify refund announced by two webhooks *)

\* an accepted orders webhook whose payload lists one refund, then the
\* accepted refunds/create webhook of that refund
UpdateThenRefund ==
    /\ prevOp.source = "shopify" /\ lastOp.source = "shopify"
    /\ prevOp.kind = "order" /\ lastOp.kind = "refund"
    /\ prevOp.ok /\ lastOp.ok
    /\ lastOp.raw.order_id = prevOp.raw.id
    /\ prevOp.raw.refunds = <<lastOp.raw.amount>>

\* the refunds/create webhook of a refund accepted for an order the
\* warehouse holds without refunds, then the accepted orders webhook whose
\* payload lists that refund
RefundThenUpdate ==
    /\ prevOp.source = "shopify" /\ lastOp.source = "shopify"
    /\ prevOp.kind = "refund" /\ lastOp.kind = "order"
    /\ prevOp.ok /\ lastOp.ok
    /\ prevOp.raw.order_id = lastOp.raw.id
    /\ lastOp.raw.refunds = <<prevOp.raw.amount>>
    /\ prevOp.pre # NoRec
    /\ prevOp.pre.refundsTotal = 0

\* the order's refundsTotal is the total the source lists for the order
RefundsTotalIsSourceTotal(payload) ==
    LET row == FindUnique(factOrder, <<"shopify", "order", payload.id>>)
    IN row # NoRec /\ row.refundsTotal = calculateTotalRefunded(payload)

\* C30: whichever of the refunds/create webhook and the orders/updated
\* webhook listing that refund is delivered first, the order ends with
\* refundsTotal equal to the source's total refunded amount
C30_RefundsTotalIsOrderIndependent ==
    /\ UpdateThenRefund => RefundsTotalIsSourceTotal(prevOp.raw)
    /\ RefundThenUpdate => RefundsTotalIsSourceTotal(lastOp.raw)

\* refund first, update second: the update overwrites refundsTotal with the
\* payload's total
C30_RefundThenUpdate ==
    RefundThenUpdate => RefundsTotalIsSourceTotal(lastOp.raw)

\* update first, refund second: the refund is added to the total that
\* already holds it
C30_UpdateThenRefundCountsTwice ==
    UpdateThenRefund =>
        LET row == FindUnique(factOrder, <<"shopify", "order", prevOp.raw.id>>)
        IN row # NoRec /\ row.refundsTotal = 2 * calculateTotalRefunded(prevOp.raw)

----------------------------------------------------------------------------
(* The retries of executeGraphQL are capped *)

\* C33: one call of executeGraphQL retries throttled (429) responses only,
\* at most MAX_RETRIES times (at most MAX_RETRIES + 1 requests), sleeping
\* INITIAL_RETRY_DELAY * 2^k before retry number k + 1; the first response
\* that is not a 429 ends the call, and the call ends with either a result
\* or an error
C33_RetriesAreCapped ==
    call.fn = "executeGraphQL" =>
        LET throttled == call.args[1]
            out == call.result
        IN /\ out.requests <= MAX_RETRIES + 1
           /\ out.requests = Min(throttled, MAX_RETRIES) + 1
           /\ Backoff(out.slept)
                = [k \in 1..(out.requests - 1) |-> INITIAL_RETRY_DELAY * Pow2(k - 1)]
           /\ \/ out.ok /\ out.data # NULL /\ out.error = NoRec
              \/ ~out.ok /\ out.data = NULL /\ out.error # NoRec

\* a call throttled twice and then answered with a server error has ended
\* at its third request with that error, after sleeping 1000 and 2000
C33_Witness ==
    /\ call.fn = "executeGraphQL"
    /\ call.args[1] = 2
    /\ call.args[3].status = 500
    /\ call.result.requests = 3
    /\ ~call.result.ok
    /\ call.result.error.message[1] = "Shopify API error: "
    /\ Backoff(call.result.slept) = <<1000, 2000>>

----------------------------------------------------------------------------
(* The hash of the empty string *)

\* the digests of the empty string
HashOfEmpty == {<<"sha256", "">>, <<"hmac-sha256", "">>}

\* C36: hashPii returns null for null and for the empty string, and for no
\* input returns the hash of the empty string
C36_NeverHashOfEmpty ==
    call.fn \in {"hashPii", "securityHashPii"} =>
        /\ call.args[1] \in {NULL, ""} => call.result = NoId
        /\ call.result \notin HashOfEmpty

\* null and the empty string yield null
C36_NullAndEmptyYieldNull ==
    call.fn \in {"hashPii", "securityHashPii"} =>
        (call.args[1] \in {NULL, ""} => call.result = NoId)

----------------------------------------------------------------------------
(* Auto-fix sends each re-pull once *)

\* C32: one reconciliation run reconciles each source once and sends at
\* most one resync request per source result, none of them twice, and none
\* at all when auto-fix is not enabled
C32_AutoFixNeverLoops ==
    call.fn = "main" =>
        LET results == call.result.results
            requests == call.result.requests
        IN /\ Len(results) = 3
           /\ \A i, j \in DOMAIN results :
                  results[i].source = results[j].source => i = j
           /\ Len(requests) <= Len(results)
           /\ \A i, j \in DOMAIN requests :
                  requests[i].source = requests[j].source => i = j
           /\ \A k \in DOMAIN requests :
                  \E i \in DOMAIN results :
                      /\ results[i].status = "mismatch"
                      /\ requests[k] = ResyncRequest(results[i])
           /\ ~call.args[1] => requests = <<>>
           /\ Len(SelectSeq(ingestAudit, LAMBDA a : a.source = "system")) <= 1

\* a run with auto-fix enabled and the counts of all three sources
\* mismatching has sent three requests, one per source
C32_Witness ==
    /\ call.fn = "main"
    /\ call.args[1]
    /\ ~call.result.fatal
    /\ Len(Mismatches(call.result.results)) = 3
    /\ Len(call.result.requests) = 3
    /\ {call.result.requests[k].source : k \in 1..3} = {"shopify", "square", "anyroad"}

----------------------------------------------------------------------------
(* Row ids across ingestion paths *)

\* the native order id of the source record a row was written from
RowNative(r) ==
    IF r.channelId = "shopify" THEN r.rawJson.order.id[5] ELSE r.rawJson.order.id

\* the native order id a finished webhook or backfill upsert is about
NativeOf(op) ==
    CASE op.via = "backfill" /\ op.source = "shopify" -> op.input.rawJson.order.id[5]
      [] op.via = "backfill" -> op.input.rawJson.order.id
      [] op.source = "shopify" /\ op.kind = "order" -> op.raw.id
      [] op.source = "shopify" /\ op.kind = "refund" -> op.raw.order_id
      [] op.source = "square" /\ op.kind = "order" -> op.raw.order.id
      [] op.source = "square" /\ op.kind = "payment" -> op.raw.payment.order_id
      [] OTHER -> NoAmount

\* this step ends an order, refund or payment webhook or a backfill upsert
OrderOpEnds ==
    /\ \/ req # NoReq /\ req' = NoReq /\ req.source \in {"shopify", "square"}
       \/ req = NoReq /\ req' = NoReq /\ ops' = ops - 1 /\ lastOp'.via = "backfill"
    /\ lastOp'.kind \in {"order", "refund", "payment", "upsert"}

\* every order row is under <channel>_order_<native id> of the record it
\* holds, whichever path wrote it, and the rows a webhook or an upsert
\* writes are those of the native id it is about
RowIdsAgree ==
    /\ \A r \in factOrder' : r.id = <<r.channelId, "order", RowNative(r)>>
    /\ OrderOpEnds =>
         \A r \in factOrder' \ factOrder :
             r.id = <<lastOp'.source, "order", NativeOf(lastOp')>>

\* C35: the row id of an order is a function of (channel, native id) that
\* all ingestion paths agree on: order webhook, refund or payment webhook,
\* backfill and resync address <channel>_order_<native id>
C35_RowIdsAgree == [][RowIdsAgree]_vars

\* a Shopify refund webhook has updated the row that a backfill upsert of
\* the same native order id had written
C35_Witness ==
    /\ prevOp.via = "backfill" /\ prevOp.source = "shopify" /\ prevOp.ok
    /\ lastOp.via = "webhook" /\ lastOp.source = "shopify"
    /\ lastOp.kind = "refund" /\ lastOp.ok
    /\ lastOp.raw.order_id = prevOp.input.rawJson.order.id[5]
    /\ \E r \in factOrder :
          /\ r.id = <<"shopify", "order", lastOp.raw.order_id>>
          /\ r.rawJson.lastRefund = lastOp.raw
          /\ r.rawJson.order = prevOp.input.rawJson.order

----------------------------------------------------------------------------
(* Referential integrity and unique ids *)

OrphanedLines == {l \in factOrderLine : Rows(factOrder, l.orderId) = {}}

UniqueIds(table) == \A r, s \in table : r.id = s.id => r = s

----------------------------------------------------------------------------
(* A resync of all sources *)

AllSources == {"shopify", "square", "anyroad"}

\* this step is an accepted POST of the resync route with source = all
ResyncAllEnds ==
    /\ ops' = ops - 1
    /\ lastOp'.kind = "resync" /\ lastOp'.source = "all"
    /\ lastOp'.raw.method = "POST" /\ lastOp'.status = 200

\* the audit rows a step appended
NewAudit == SubSeq(ingestAudit', Len(ingestAudit) + 1, Len(ingestAudit'))

\* every source is run whether or not another one threw, is reported with
\* its count (0 for one that threw), and gets one audit row of its outcome
EachSourceIsResynced ==
    ResyncAllEnds =>
        LET did == lastOp'.input
            new == NewAudit
        IN /\ DOMAIN did.results = AllSources
           /\ Len(new) = Cardinality(AllSources)
           /\ \A s \in AllSources :
                \E k \in DOMAIN new :
                    /\ new[k].source = s /\ new[k].type = <<"resync", s>>
                    /\ \A j \in DOMAIN new : new[j].source = s => j = k
                    /\ IF s \in did.threw
                       THEN new[k].status = "failed" /\ did.results[s] = 0
                       ELSE /\ new[k].status = "success"
                            /\ new[k].subject = [count |-> did.results[s]]
           /\ \A s \in {"shopify", "square"} \ did.threw :
                did.results[s]
                  = Len(SelectSeq(did.orders, LAMBDA o : o.channelId = s))
           /\ "anyroad" \notin did.threw =>
                Cardinality(factEvent') >= did.results["anyroad"]

----------------------------------------------------------------------------
(* A Square payment ahead of its order *)

\* the last operation is a Square payment webhook for an order that the
\* warehouse lacked and that fetchOrderById found at the source, and no
\* request has arrived since
PaymentAheadOfOrder ==
    /\ req = NoReq
    /\ lastOp.via = "webhook" /\ lastOp.source = "square"
    /\ lastOp.kind = "payment"
    /\ lastOp.pre = NoRec
    /\ lastOp.input.fetched \notin {NoRec, NotAsked}

\* C38: a Square payment webhook for an order the warehouse lacks and the
\* source has creates the row square_order_<id>, applies the payment to it
\* and ends with audit status success
C38_PaymentCreatesItsOrder ==
    PaymentAheadOfOrder =>
        LET row == FindUnique(factOrder, <<"square", "order", lastOp.raw.payment.order_id>>)
        IN /\ row # NoRec
           /\ \E i \in DOMAIN row.tendersJson :
                  row.tendersJson[i].paymentId = lastOp.raw.payment.id
           /\ lastOp.ok /\ lastOp.status = 200
           /\ ingestAudit[Len(ingestAudit)].status = "success"

\* what the code does: the request fails and no order row is written
C38_PaymentAheadOfOrderFails ==
    PaymentAheadOfOrder =>
        /\ FindUnique(factOrder, <<"square", "order", lastOp.raw.payment.order_id>>) = NoRec
        /\ ~lastOp.ok /\ lastOp.status = 500
        /\ ingestAudit[Len(ingestAudit)].status = "failed"

----------------------------------------------------------------------------
(* The Shopify backfill terminates *)

ShopifyRunning == bf # NoRec /\ bf.source = "shopify"

\* the run has ended after its last window and its backfill_complete row
\* is the last row of the audit
ShopifyCompleted ==
    /\ bf = NoRec
    /\ lastOp.kind = "run" /\ lastOp.source = "shopify"
    /\ lastOp.input.how = "complete"
    /\ Len(ingestAudit) > 0
    /\ ingestAudit[Len(ingestAudit)].type = <<"backfill", "complete">>
    /\ ingestAudit[Len(ingestAudit)].status = "success"

\* C39: against a source that answers every page request, a run of
\* backfillShopify ends: the page loop of every window ends, the windows
\* advance to the end of the range, and the backfill_complete row is written
C39_BackfillTerminates == ShopifyRunning ~> ShopifyCompleted

\* a run that went through a window of more than one page and a second
\* window has completed
C39_Witness ==
    /\ ShopifyCompleted
    /\ lastOp.input.log.fetched = SourceIds
    /\ \E i \in DOMAIN ingestAudit :
          /\ IsCheckpoint(ingestAudit[i], "shopify")
          /\ ingestAudit[i].subject.startDate > 0
    /\ \E i, j \in DOMAIN ingestAudit :
          /\ i < j
          /\ IsCheckpoint(ingestAudit[i], "shopify")
          /\ IsCheckpoint(ingestAudit[j], "shopify")
          /\ ingestAudit[i].subject.startDate = ingestAudit[j].subject.startDate

----------------------------------------------------------------------------
(* Reconciliation after a backfill *)

\* reconcileShopify ran for a window right after a Shopify backfill that
\* started on an empty warehouse, went through the whole range and
\* persisted every record it fetched
ReconciledAfterBackfill ==
    /\ call.fn = "reconcileShopify"
    /\ LET after == call.args[3]
       IN /\ after.via = "backfill" /\ after.source = "shopify" /\ after.kind = "run"
          /\ after.input.how = "complete"
          /\ after.input.log.clean
          /\ after.input.log.startedEmpty
          /\ after.input.log.resumedFrom = NoRec
          /\ after.input.log.fetched = SourceIds

\* C31: with an unchanged source, reconcile of a window that a successful
\* backfill has persisted entirely returns status match, however many
\* records (and fetch pages) the window holds
C31_ReconcileMatchesAfterBackfill ==
    ReconciledAfterBackfill => call.result.status = "match"

\* what the code does: reconcile reads one page of the window, so a window
\* of one page matches and a window of more pages does not
C31_OnlyOnePageIsCompared ==
    ReconciledAfterBackfill =>
        LET inWindow == {n \in SourceIds : OrderDay(n) >= call.args[1]
                                           /\ OrderDay(n) <= call.args[2]}
        IN /\ call.result.warehouseCount = Cardinality(inWindow)
           /\ call.result.sourceCount = Min(Cardinality(inWindow), PageLimit)
           /\ call.result.status = "match" <=> Cardinality(inWindow) <= PageLimit

====
